---- MODULE Spec2Model ----
(***************************************************************************)
(* A model of retrospector: the keyboard state (src/src/update.rs), the    *)
(* frame loop started by run (src/src/app.rs, src/src/lib.rs) and the      *)
(* sprite atlas (src/src/render.rs).                                       *)
(***************************************************************************)
EXTENDS Integers, Sequences, FiniteSets, TLC

VARIABLES
    key_event,        \* the KeyEvent shared by the handlers and the tick
    prev_key_event,   \* the KeyEvent as it was before the last handled event
    last_event,       \* the KeyboardEvent handled last: [type, key_code]
    repeated,         \* the event handled before last_event was the same event
    n_events,         \* number of events handled since KeyEvent::new
    history           \* every event handled since KeyEvent::new, in order

VARIABLES
    variant,          \* which revision of run is started: "app" or "lib"
    failed_step,      \* the setup step of run that failed, "none" if none did
    run_result,       \* what run returned: "none", "Ok", "Err" or "panic"
    listeners,        \* event types with a handler registered on the document
    raf_pending,      \* frame callbacks requested from the host, not yet invoked
    pc,               \* position in the frame callback
    key_borrow,       \* RefCell state of shared_key_event: "free" or "shared"
    ticks,            \* number of frame callbacks invoked so far, counted up to MaxTicks
    in_progress,      \* the ticks whose update/render pair is running
    calls,            \* what the current tick has invoked, in order
    pending_keys,     \* keyboard events queued by the host, oldest first
    arrivals,         \* number of keyboard events the host has queued so far
    update_keys,      \* the KeyEvent passed to update in the current tick
    handled,          \* events handled since the end of the previous tick
    keys_at_tick_end, \* key_event as the previous tick left it
    fault,            \* which callback of a tick panicked: "none", "update" or "render"
    host_clock,       \* the host's clock: milliseconds since navigation start
    times             \* the time the host gave the last callback and the one
                      \* update received, for the last tick and the one before

VARIABLES
    store_args,       \* the arguments of SpriteStore::new and the host's answer
    store_result,     \* what SpriteStore::new returned
    builder,          \* what SpriteBuilder::new (lib.rs) returned
    lookup,           \* the last sprite lookup and what it returned
    built,            \* what SpriteStore::new returned, as it was on return
    lookups_left,     \* lookups the behaviour may still make
    n_failed          \* lookups that returned an error so far

VARIABLES
    renderer,         \* the Renderer: canvas_width and canvas_height
    draw,             \* the last drawing operation, its arguments and its result
    surface           \* the calls that reached the rendering context, in order

atlas_vars == <<store_args, store_result, builder, lookup, built, lookups_left,
                n_failed>>

draw_vars == <<renderer, draw, surface>>

key_vars == <<prev_key_event, last_event, repeated, n_events, history>>

loop_vars == <<variant, failed_step, run_result, listeners, raf_pending, pc, key_borrow, ticks,
               in_progress, calls, pending_keys, arrivals, update_keys, handled,
               keys_at_tick_end, fault, host_clock, times>>

vars == <<key_event, key_vars, loop_vars, atlas_vars, draw_vars>>

(* ----------------------------- bounds --------------------------------- *)
(* Raw key codes the host delivers in KeySpec: 0..MaxRawCode covers every  *)
(* DOM_VK code the handlers match and the untracked codes around them.     *)
MaxRawCode == 91
(* Events handled in one behaviour of KeySpec. *)
MaxKeyEvents == 2
(* Events handled in one behaviour of KeySeqSpec. *)
MaxHistory == 4
(* Frame callbacks invoked in one behaviour of Spec. *)
MaxTicks == 3
(* Keyboard events the host queues in one behaviour of Spec, and how many
   may wait in its queue at once. *)
MaxArrivals == 3
MaxPending == 2
(* The furthest the host's clock advances in TimeSpec. *)
MaxClock == 4
(* Image and tile sizes tried in AtlasSpec. *)
MaxDim == 6
MaxTile == 3
(* AtlasSeqSpec: lookups made in one behaviour, image and tile sizes tried,
   columns, rows and indices asked for. *)
MaxLookups == 3
MaxSeqDim == 3
MaxSeqTile == 2
MaxSeqCoord == 2
MaxSeqIndex == 4
(* Columns, rows and linear indices asked for in AtlasSpec. *)
MaxCoord == 7
MaxIndex == 37
MaxCanvas == 2      \* largest canvas width and height drawn on
(* WordSpec: the number of bits of the machine word that stands for u32 and
   for usize; every u32 argument ranges over the whole word.  MaxMemory is
   the most sprites the host's memory holds; it stays below 2 ^ WordBits as
   a 32-bit address space holds fewer than 2 ^ 32 sprites. *)
WordBits == 3
MaxMemory == 6
MaxSprite == 2      \* largest sprite width and height drawn

(* web_sys::KeyEvent virtual key codes named by the match arms of
   update_on_keydown / update_on_keyup. *)
DOM_VK_RETURN == 13
DOM_VK_LEFT == 37
DOM_VK_UP == 38
DOM_VK_RIGHT == 39
DOM_VK_DOWN == 40
DOM_VK_0 == 48
DOM_VK_1 == 49
DOM_VK_2 == 50
DOM_VK_3 == 51
DOM_VK_4 == 52
DOM_VK_5 == 53
DOM_VK_6 == 54
DOM_VK_7 == 55
DOM_VK_8 == 56
DOM_VK_9 == 57
DOM_VK_A == 65
DOM_VK_B == 66
DOM_VK_C == 67
DOM_VK_D == 68
DOM_VK_E == 69
DOM_VK_F == 70
DOM_VK_G == 71
DOM_VK_H == 72
DOM_VK_I == 73
DOM_VK_J == 74
DOM_VK_K == 75
DOM_VK_L == 76
DOM_VK_M == 77
DOM_VK_N == 78
DOM_VK_O == 79
DOM_VK_P == 80
DOM_VK_Q == 81
DOM_VK_R == 82
DOM_VK_S == 83
DOM_VK_T == 84
DOM_VK_U == 85
DOM_VK_V == 86
DOM_VK_W == 87
DOM_VK_X == 88
DOM_VK_Y == 89
DOM_VK_Z == 90

(* struct KeyEvent: one bool per tracked key. *)
KeyEventFields ==
    { "enter", "arrow_left", "arrow_up", "arrow_right", "arrow_down",
      "digit_0", "digit_1", "digit_2", "digit_3", "digit_4", "digit_5",
      "digit_6", "digit_7", "digit_8", "digit_9", "key_a", "key_b", "key_c",
      "key_d", "key_e", "key_f", "key_g", "key_h", "key_i", "key_j",
      "key_k", "key_l", "key_m", "key_n", "key_o", "key_p", "key_q",
      "key_r", "key_s", "key_t", "key_u", "key_v", "key_w", "key_x",
      "key_y", "key_z" }

KeyEvent == [KeyEventFields -> BOOLEAN]

(* A constructor that leaves one flag set. *)
KeyEvent_new_enter_set ==
    [ enter |-> TRUE,
      arrow_left |-> FALSE,
      arrow_up |-> FALSE,
      arrow_right |-> FALSE,
      arrow_down |-> FALSE,
      digit_0 |-> FALSE,
      digit_1 |-> FALSE,
      digit_2 |-> FALSE,
      digit_3 |-> FALSE,
      digit_4 |-> FALSE,
      digit_5 |-> FALSE,
      digit_6 |-> FALSE,
      digit_7 |-> FALSE,
      digit_8 |-> FALSE,
      digit_9 |-> FALSE,
      key_a |-> FALSE,
      key_b |-> FALSE,
      key_c |-> FALSE,
      key_d |-> FALSE,
      key_e |-> FALSE,
      key_f |-> FALSE,
      key_g |-> FALSE,
      key_h |-> FALSE,
      key_i |-> FALSE,
      key_j |-> FALSE,
      key_k |-> FALSE,
      key_l |-> FALSE,
      key_m |-> FALSE,
      key_n |-> FALSE,
      key_o |-> FALSE,
      key_p |-> FALSE,
      key_q |-> FALSE,
      key_r |-> FALSE,
      key_s |-> FALSE,
      key_t |-> FALSE,
      key_u |-> FALSE,
      key_v |-> FALSE,
      key_w |-> FALSE,
      key_x |-> FALSE,
      key_y |-> FALSE,
      key_z |-> FALSE ]

(* KeyEvent::new: every flag false. *)
KeyEvent_new ==
    [ enter |-> FALSE,
      arrow_left |-> FALSE,
      arrow_up |-> FALSE,
      arrow_right |-> FALSE,
      arrow_down |-> FALSE,
      digit_0 |-> FALSE,
      digit_1 |-> FALSE,
      digit_2 |-> FALSE,
      digit_3 |-> FALSE,
      digit_4 |-> FALSE,
      digit_5 |-> FALSE,
      digit_6 |-> FALSE,
      digit_7 |-> FALSE,
      digit_8 |-> FALSE,
      digit_9 |-> FALSE,
      key_a |-> FALSE,
      key_b |-> FALSE,
      key_c |-> FALSE,
      key_d |-> FALSE,
      key_e |-> FALSE,
      key_f |-> FALSE,
      key_g |-> FALSE,
      key_h |-> FALSE,
      key_i |-> FALSE,
      key_j |-> FALSE,
      key_k |-> FALSE,
      key_l |-> FALSE,
      key_m |-> FALSE,
      key_n |-> FALSE,
      key_o |-> FALSE,
      key_p |-> FALSE,
      key_q |-> FALSE,
      key_r |-> FALSE,
      key_s |-> FALSE,
      key_t |-> FALSE,
      key_u |-> FALSE,
      key_v |-> FALSE,
      key_w |-> FALSE,
      key_x |-> FALSE,
      key_y |-> FALSE,
      key_z |-> FALSE ]

(* Read accessors, one per tracked key. *)
is_enter_down(self) == self.enter
is_arrow_left_down(self) == self.arrow_left
is_arrow_up_down(self) == self.arrow_up
is_arrow_right_down(self) == self.arrow_right
is_arrow_down_down(self) == self.arrow_down
is_digit_0_down(self) == self.digit_0
is_digit_1_down(self) == self.digit_1
is_digit_2_down(self) == self.digit_2
is_digit_3_down(self) == self.digit_3
is_digit_4_down(self) == self.digit_4
is_digit_5_down(self) == self.digit_5
is_digit_6_down(self) == self.digit_6
is_digit_7_down(self) == self.digit_7
is_digit_8_down(self) == self.digit_8
is_digit_9_down(self) == self.digit_9
is_key_a_down(self) == self.key_a
(* An accessor copied from its neighbour without renaming the field. *)
is_key_b_down_reads_key_a(self) == self.key_a
is_key_b_down(self) == self.key_b
is_key_c_down(self) == self.key_c
is_key_d_down(self) == self.key_d
is_key_e_down(self) == self.key_e
is_key_f_down(self) == self.key_f
is_key_g_down(self) == self.key_g
is_key_h_down(self) == self.key_h
is_key_i_down(self) == self.key_i
is_key_j_down(self) == self.key_j
is_key_k_down(self) == self.key_k
is_key_l_down(self) == self.key_l
is_key_m_down(self) == self.key_m
is_key_n_down(self) == self.key_n
is_key_o_down(self) == self.key_o
is_key_p_down(self) == self.key_p
is_key_q_down(self) == self.key_q
is_key_r_down(self) == self.key_r
is_key_s_down(self) == self.key_s
is_key_t_down(self) == self.key_t
is_key_u_down(self) == self.key_u
is_key_v_down(self) == self.key_v
is_key_w_down(self) == self.key_w
is_key_x_down(self) == self.key_x
is_key_y_down(self) == self.key_y
is_key_z_down(self) == self.key_z

(* A handler that counts or toggles instead of setting the level. *)
update_on_keydown_toggles(self, key_code) ==
    CASE key_code = DOM_VK_RETURN -> [self EXCEPT !.enter = ~self.enter]
      [] key_code = DOM_VK_LEFT -> [self EXCEPT !.arrow_left = ~self.arrow_left]
      [] key_code = DOM_VK_UP -> [self EXCEPT !.arrow_up = ~self.arrow_up]
      [] key_code = DOM_VK_RIGHT -> [self EXCEPT !.arrow_right = ~self.arrow_right]
      [] key_code = DOM_VK_DOWN -> [self EXCEPT !.arrow_down = ~self.arrow_down]
      [] key_code = DOM_VK_0 -> [self EXCEPT !.digit_0 = ~self.digit_0]
      [] key_code = DOM_VK_1 -> [self EXCEPT !.digit_1 = ~self.digit_1]
      [] key_code = DOM_VK_2 -> [self EXCEPT !.digit_2 = ~self.digit_2]
      [] key_code = DOM_VK_3 -> [self EXCEPT !.digit_3 = ~self.digit_3]
      [] key_code = DOM_VK_4 -> [self EXCEPT !.digit_4 = ~self.digit_4]
      [] key_code = DOM_VK_5 -> [self EXCEPT !.digit_5 = ~self.digit_5]
      [] key_code = DOM_VK_6 -> [self EXCEPT !.digit_6 = ~self.digit_6]
      [] key_code = DOM_VK_7 -> [self EXCEPT !.digit_7 = ~self.digit_7]
      [] key_code = DOM_VK_8 -> [self EXCEPT !.digit_8 = ~self.digit_8]
      [] key_code = DOM_VK_9 -> [self EXCEPT !.digit_9 = ~self.digit_9]
      [] key_code = DOM_VK_A -> [self EXCEPT !.key_a = ~self.key_a]
      [] key_code = DOM_VK_B -> [self EXCEPT !.key_b = ~self.key_b]
      [] key_code = DOM_VK_C -> [self EXCEPT !.key_c = ~self.key_c]
      [] key_code = DOM_VK_D -> [self EXCEPT !.key_d = ~self.key_d]
      [] key_code = DOM_VK_E -> [self EXCEPT !.key_e = ~self.key_e]
      [] key_code = DOM_VK_F -> [self EXCEPT !.key_f = ~self.key_f]
      [] key_code = DOM_VK_G -> [self EXCEPT !.key_g = ~self.key_g]
      [] key_code = DOM_VK_H -> [self EXCEPT !.key_h = ~self.key_h]
      [] key_code = DOM_VK_I -> [self EXCEPT !.key_i = ~self.key_i]
      [] key_code = DOM_VK_J -> [self EXCEPT !.key_j = ~self.key_j]
      [] key_code = DOM_VK_K -> [self EXCEPT !.key_k = ~self.key_k]
      [] key_code = DOM_VK_L -> [self EXCEPT !.key_l = ~self.key_l]
      [] key_code = DOM_VK_M -> [self EXCEPT !.key_m = ~self.key_m]
      [] key_code = DOM_VK_N -> [self EXCEPT !.key_n = ~self.key_n]
      [] key_code = DOM_VK_O -> [self EXCEPT !.key_o = ~self.key_o]
      [] key_code = DOM_VK_P -> [self EXCEPT !.key_p = ~self.key_p]
      [] key_code = DOM_VK_Q -> [self EXCEPT !.key_q = ~self.key_q]
      [] key_code = DOM_VK_R -> [self EXCEPT !.key_r = ~self.key_r]
      [] key_code = DOM_VK_S -> [self EXCEPT !.key_s = ~self.key_s]
      [] key_code = DOM_VK_T -> [self EXCEPT !.key_t = ~self.key_t]
      [] key_code = DOM_VK_U -> [self EXCEPT !.key_u = ~self.key_u]
      [] key_code = DOM_VK_V -> [self EXCEPT !.key_v = ~self.key_v]
      [] key_code = DOM_VK_W -> [self EXCEPT !.key_w = ~self.key_w]
      [] key_code = DOM_VK_X -> [self EXCEPT !.key_x = ~self.key_x]
      [] key_code = DOM_VK_Y -> [self EXCEPT !.key_y = ~self.key_y]
      [] key_code = DOM_VK_Z -> [self EXCEPT !.key_z = ~self.key_z]
      [] OTHER -> self

(* A handler whose DOM_VK_B arm was copied from the DOM_VK_A arm. *)
update_on_keydown_b_sets_a(self, key_code) ==
    CASE key_code = DOM_VK_RETURN -> [self EXCEPT !.enter = TRUE]
      [] key_code = DOM_VK_LEFT -> [self EXCEPT !.arrow_left = TRUE]
      [] key_code = DOM_VK_UP -> [self EXCEPT !.arrow_up = TRUE]
      [] key_code = DOM_VK_RIGHT -> [self EXCEPT !.arrow_right = TRUE]
      [] key_code = DOM_VK_DOWN -> [self EXCEPT !.arrow_down = TRUE]
      [] key_code = DOM_VK_0 -> [self EXCEPT !.digit_0 = TRUE]
      [] key_code = DOM_VK_1 -> [self EXCEPT !.digit_1 = TRUE]
      [] key_code = DOM_VK_2 -> [self EXCEPT !.digit_2 = TRUE]
      [] key_code = DOM_VK_3 -> [self EXCEPT !.digit_3 = TRUE]
      [] key_code = DOM_VK_4 -> [self EXCEPT !.digit_4 = TRUE]
      [] key_code = DOM_VK_5 -> [self EXCEPT !.digit_5 = TRUE]
      [] key_code = DOM_VK_6 -> [self EXCEPT !.digit_6 = TRUE]
      [] key_code = DOM_VK_7 -> [self EXCEPT !.digit_7 = TRUE]
      [] key_code = DOM_VK_8 -> [self EXCEPT !.digit_8 = TRUE]
      [] key_code = DOM_VK_9 -> [self EXCEPT !.digit_9 = TRUE]
      [] key_code = DOM_VK_A -> [self EXCEPT !.key_a = TRUE]
      [] key_code = DOM_VK_B -> [self EXCEPT !.key_a = TRUE]
      [] key_code = DOM_VK_C -> [self EXCEPT !.key_c = TRUE]
      [] key_code = DOM_VK_D -> [self EXCEPT !.key_d = TRUE]
      [] key_code = DOM_VK_E -> [self EXCEPT !.key_e = TRUE]
      [] key_code = DOM_VK_F -> [self EXCEPT !.key_f = TRUE]
      [] key_code = DOM_VK_G -> [self EXCEPT !.key_g = TRUE]
      [] key_code = DOM_VK_H -> [self EXCEPT !.key_h = TRUE]
      [] key_code = DOM_VK_I -> [self EXCEPT !.key_i = TRUE]
      [] key_code = DOM_VK_J -> [self EXCEPT !.key_j = TRUE]
      [] key_code = DOM_VK_K -> [self EXCEPT !.key_k = TRUE]
      [] key_code = DOM_VK_L -> [self EXCEPT !.key_l = TRUE]
      [] key_code = DOM_VK_M -> [self EXCEPT !.key_m = TRUE]
      [] key_code = DOM_VK_N -> [self EXCEPT !.key_n = TRUE]
      [] key_code = DOM_VK_O -> [self EXCEPT !.key_o = TRUE]
      [] key_code = DOM_VK_P -> [self EXCEPT !.key_p = TRUE]
      [] key_code = DOM_VK_Q -> [self EXCEPT !.key_q = TRUE]
      [] key_code = DOM_VK_R -> [self EXCEPT !.key_r = TRUE]
      [] key_code = DOM_VK_S -> [self EXCEPT !.key_s = TRUE]
      [] key_code = DOM_VK_T -> [self EXCEPT !.key_t = TRUE]
      [] key_code = DOM_VK_U -> [self EXCEPT !.key_u = TRUE]
      [] key_code = DOM_VK_V -> [self EXCEPT !.key_v = TRUE]
      [] key_code = DOM_VK_W -> [self EXCEPT !.key_w = TRUE]
      [] key_code = DOM_VK_X -> [self EXCEPT !.key_x = TRUE]
      [] key_code = DOM_VK_Y -> [self EXCEPT !.key_y = TRUE]
      [] key_code = DOM_VK_Z -> [self EXCEPT !.key_z = TRUE]
      [] OTHER -> self

(* match event.key_code() { DOM_VK_x => self.x = true, ..., _ => {} } *)
update_on_keydown(self, key_code) ==
    CASE key_code = DOM_VK_RETURN -> [self EXCEPT !.enter = TRUE]
      [] key_code = DOM_VK_LEFT -> [self EXCEPT !.arrow_left = TRUE]
      [] key_code = DOM_VK_UP -> [self EXCEPT !.arrow_up = TRUE]
      [] key_code = DOM_VK_RIGHT -> [self EXCEPT !.arrow_right = TRUE]
      [] key_code = DOM_VK_DOWN -> [self EXCEPT !.arrow_down = TRUE]
      [] key_code = DOM_VK_0 -> [self EXCEPT !.digit_0 = TRUE]
      [] key_code = DOM_VK_1 -> [self EXCEPT !.digit_1 = TRUE]
      [] key_code = DOM_VK_2 -> [self EXCEPT !.digit_2 = TRUE]
      [] key_code = DOM_VK_3 -> [self EXCEPT !.digit_3 = TRUE]
      [] key_code = DOM_VK_4 -> [self EXCEPT !.digit_4 = TRUE]
      [] key_code = DOM_VK_5 -> [self EXCEPT !.digit_5 = TRUE]
      [] key_code = DOM_VK_6 -> [self EXCEPT !.digit_6 = TRUE]
      [] key_code = DOM_VK_7 -> [self EXCEPT !.digit_7 = TRUE]
      [] key_code = DOM_VK_8 -> [self EXCEPT !.digit_8 = TRUE]
      [] key_code = DOM_VK_9 -> [self EXCEPT !.digit_9 = TRUE]
      [] key_code = DOM_VK_A -> [self EXCEPT !.key_a = TRUE]
      [] key_code = DOM_VK_B -> [self EXCEPT !.key_b = TRUE]
      [] key_code = DOM_VK_C -> [self EXCEPT !.key_c = TRUE]
      [] key_code = DOM_VK_D -> [self EXCEPT !.key_d = TRUE]
      [] key_code = DOM_VK_E -> [self EXCEPT !.key_e = TRUE]
      [] key_code = DOM_VK_F -> [self EXCEPT !.key_f = TRUE]
      [] key_code = DOM_VK_G -> [self EXCEPT !.key_g = TRUE]
      [] key_code = DOM_VK_H -> [self EXCEPT !.key_h = TRUE]
      [] key_code = DOM_VK_I -> [self EXCEPT !.key_i = TRUE]
      [] key_code = DOM_VK_J -> [self EXCEPT !.key_j = TRUE]
      [] key_code = DOM_VK_K -> [self EXCEPT !.key_k = TRUE]
      [] key_code = DOM_VK_L -> [self EXCEPT !.key_l = TRUE]
      [] key_code = DOM_VK_M -> [self EXCEPT !.key_m = TRUE]
      [] key_code = DOM_VK_N -> [self EXCEPT !.key_n = TRUE]
      [] key_code = DOM_VK_O -> [self EXCEPT !.key_o = TRUE]
      [] key_code = DOM_VK_P -> [self EXCEPT !.key_p = TRUE]
      [] key_code = DOM_VK_Q -> [self EXCEPT !.key_q = TRUE]
      [] key_code = DOM_VK_R -> [self EXCEPT !.key_r = TRUE]
      [] key_code = DOM_VK_S -> [self EXCEPT !.key_s = TRUE]
      [] key_code = DOM_VK_T -> [self EXCEPT !.key_t = TRUE]
      [] key_code = DOM_VK_U -> [self EXCEPT !.key_u = TRUE]
      [] key_code = DOM_VK_V -> [self EXCEPT !.key_v = TRUE]
      [] key_code = DOM_VK_W -> [self EXCEPT !.key_w = TRUE]
      [] key_code = DOM_VK_X -> [self EXCEPT !.key_x = TRUE]
      [] key_code = DOM_VK_Y -> [self EXCEPT !.key_y = TRUE]
      [] key_code = DOM_VK_Z -> [self EXCEPT !.key_z = TRUE]
      [] OTHER -> self

(* A release handler whose default arm resets the state. *)
update_on_keyup_default_clears(self, key_code) ==
    CASE key_code = DOM_VK_RETURN -> [self EXCEPT !.enter = FALSE]
      [] key_code = DOM_VK_LEFT -> [self EXCEPT !.arrow_left = FALSE]
      [] key_code = DOM_VK_UP -> [self EXCEPT !.arrow_up = FALSE]
      [] key_code = DOM_VK_RIGHT -> [self EXCEPT !.arrow_right = FALSE]
      [] key_code = DOM_VK_DOWN -> [self EXCEPT !.arrow_down = FALSE]
      [] key_code = DOM_VK_0 -> [self EXCEPT !.digit_0 = FALSE]
      [] key_code = DOM_VK_1 -> [self EXCEPT !.digit_1 = FALSE]
      [] key_code = DOM_VK_2 -> [self EXCEPT !.digit_2 = FALSE]
      [] key_code = DOM_VK_3 -> [self EXCEPT !.digit_3 = FALSE]
      [] key_code = DOM_VK_4 -> [self EXCEPT !.digit_4 = FALSE]
      [] key_code = DOM_VK_5 -> [self EXCEPT !.digit_5 = FALSE]
      [] key_code = DOM_VK_6 -> [self EXCEPT !.digit_6 = FALSE]
      [] key_code = DOM_VK_7 -> [self EXCEPT !.digit_7 = FALSE]
      [] key_code = DOM_VK_8 -> [self EXCEPT !.digit_8 = FALSE]
      [] key_code = DOM_VK_9 -> [self EXCEPT !.digit_9 = FALSE]
      [] key_code = DOM_VK_A -> [self EXCEPT !.key_a = FALSE]
      [] key_code = DOM_VK_B -> [self EXCEPT !.key_b = FALSE]
      [] key_code = DOM_VK_C -> [self EXCEPT !.key_c = FALSE]
      [] key_code = DOM_VK_D -> [self EXCEPT !.key_d = FALSE]
      [] key_code = DOM_VK_E -> [self EXCEPT !.key_e = FALSE]
      [] key_code = DOM_VK_F -> [self EXCEPT !.key_f = FALSE]
      [] key_code = DOM_VK_G -> [self EXCEPT !.key_g = FALSE]
      [] key_code = DOM_VK_H -> [self EXCEPT !.key_h = FALSE]
      [] key_code = DOM_VK_I -> [self EXCEPT !.key_i = FALSE]
      [] key_code = DOM_VK_J -> [self EXCEPT !.key_j = FALSE]
      [] key_code = DOM_VK_K -> [self EXCEPT !.key_k = FALSE]
      [] key_code = DOM_VK_L -> [self EXCEPT !.key_l = FALSE]
      [] key_code = DOM_VK_M -> [self EXCEPT !.key_m = FALSE]
      [] key_code = DOM_VK_N -> [self EXCEPT !.key_n = FALSE]
      [] key_code = DOM_VK_O -> [self EXCEPT !.key_o = FALSE]
      [] key_code = DOM_VK_P -> [self EXCEPT !.key_p = FALSE]
      [] key_code = DOM_VK_Q -> [self EXCEPT !.key_q = FALSE]
      [] key_code = DOM_VK_R -> [self EXCEPT !.key_r = FALSE]
      [] key_code = DOM_VK_S -> [self EXCEPT !.key_s = FALSE]
      [] key_code = DOM_VK_T -> [self EXCEPT !.key_t = FALSE]
      [] key_code = DOM_VK_U -> [self EXCEPT !.key_u = FALSE]
      [] key_code = DOM_VK_V -> [self EXCEPT !.key_v = FALSE]
      [] key_code = DOM_VK_W -> [self EXCEPT !.key_w = FALSE]
      [] key_code = DOM_VK_X -> [self EXCEPT !.key_x = FALSE]
      [] key_code = DOM_VK_Y -> [self EXCEPT !.key_y = FALSE]
      [] key_code = DOM_VK_Z -> [self EXCEPT !.key_z = FALSE]
      [] OTHER -> KeyEvent_new

(* match event.key_code() { DOM_VK_x => self.x = false, ..., _ => {} } *)
update_on_keyup(self, key_code) ==
    CASE key_code = DOM_VK_RETURN -> [self EXCEPT !.enter = FALSE]
      [] key_code = DOM_VK_LEFT -> [self EXCEPT !.arrow_left = FALSE]
      [] key_code = DOM_VK_UP -> [self EXCEPT !.arrow_up = FALSE]
      [] key_code = DOM_VK_RIGHT -> [self EXCEPT !.arrow_right = FALSE]
      [] key_code = DOM_VK_DOWN -> [self EXCEPT !.arrow_down = FALSE]
      [] key_code = DOM_VK_0 -> [self EXCEPT !.digit_0 = FALSE]
      [] key_code = DOM_VK_1 -> [self EXCEPT !.digit_1 = FALSE]
      [] key_code = DOM_VK_2 -> [self EXCEPT !.digit_2 = FALSE]
      [] key_code = DOM_VK_3 -> [self EXCEPT !.digit_3 = FALSE]
      [] key_code = DOM_VK_4 -> [self EXCEPT !.digit_4 = FALSE]
      [] key_code = DOM_VK_5 -> [self EXCEPT !.digit_5 = FALSE]
      [] key_code = DOM_VK_6 -> [self EXCEPT !.digit_6 = FALSE]
      [] key_code = DOM_VK_7 -> [self EXCEPT !.digit_7 = FALSE]
      [] key_code = DOM_VK_8 -> [self EXCEPT !.digit_8 = FALSE]
      [] key_code = DOM_VK_9 -> [self EXCEPT !.digit_9 = FALSE]
      [] key_code = DOM_VK_A -> [self EXCEPT !.key_a = FALSE]
      [] key_code = DOM_VK_B -> [self EXCEPT !.key_b = FALSE]
      [] key_code = DOM_VK_C -> [self EXCEPT !.key_c = FALSE]
      [] key_code = DOM_VK_D -> [self EXCEPT !.key_d = FALSE]
      [] key_code = DOM_VK_E -> [self EXCEPT !.key_e = FALSE]
      [] key_code = DOM_VK_F -> [self EXCEPT !.key_f = FALSE]
      [] key_code = DOM_VK_G -> [self EXCEPT !.key_g = FALSE]
      [] key_code = DOM_VK_H -> [self EXCEPT !.key_h = FALSE]
      [] key_code = DOM_VK_I -> [self EXCEPT !.key_i = FALSE]
      [] key_code = DOM_VK_J -> [self EXCEPT !.key_j = FALSE]
      [] key_code = DOM_VK_K -> [self EXCEPT !.key_k = FALSE]
      [] key_code = DOM_VK_L -> [self EXCEPT !.key_l = FALSE]
      [] key_code = DOM_VK_M -> [self EXCEPT !.key_m = FALSE]
      [] key_code = DOM_VK_N -> [self EXCEPT !.key_n = FALSE]
      [] key_code = DOM_VK_O -> [self EXCEPT !.key_o = FALSE]
      [] key_code = DOM_VK_P -> [self EXCEPT !.key_p = FALSE]
      [] key_code = DOM_VK_Q -> [self EXCEPT !.key_q = FALSE]
      [] key_code = DOM_VK_R -> [self EXCEPT !.key_r = FALSE]
      [] key_code = DOM_VK_S -> [self EXCEPT !.key_s = FALSE]
      [] key_code = DOM_VK_T -> [self EXCEPT !.key_t = FALSE]
      [] key_code = DOM_VK_U -> [self EXCEPT !.key_u = FALSE]
      [] key_code = DOM_VK_V -> [self EXCEPT !.key_v = FALSE]
      [] key_code = DOM_VK_W -> [self EXCEPT !.key_w = FALSE]
      [] key_code = DOM_VK_X -> [self EXCEPT !.key_x = FALSE]
      [] key_code = DOM_VK_Y -> [self EXCEPT !.key_y = FALSE]
      [] key_code = DOM_VK_Z -> [self EXCEPT !.key_z = FALSE]
      [] OTHER -> self

(* The tracked vocabulary: each key identifier with its raw code. *)
TrackedCode(K) ==
    CASE K = "enter" -> DOM_VK_RETURN
      [] K = "arrow_left" -> DOM_VK_LEFT
      [] K = "arrow_up" -> DOM_VK_UP
      [] K = "arrow_right" -> DOM_VK_RIGHT
      [] K = "arrow_down" -> DOM_VK_DOWN
      [] K = "digit_0" -> DOM_VK_0
      [] K = "digit_1" -> DOM_VK_1
      [] K = "digit_2" -> DOM_VK_2
      [] K = "digit_3" -> DOM_VK_3
      [] K = "digit_4" -> DOM_VK_4
      [] K = "digit_5" -> DOM_VK_5
      [] K = "digit_6" -> DOM_VK_6
      [] K = "digit_7" -> DOM_VK_7
      [] K = "digit_8" -> DOM_VK_8
      [] K = "digit_9" -> DOM_VK_9
      [] K = "key_a" -> DOM_VK_A
      [] K = "key_b" -> DOM_VK_B
      [] K = "key_c" -> DOM_VK_C
      [] K = "key_d" -> DOM_VK_D
      [] K = "key_e" -> DOM_VK_E
      [] K = "key_f" -> DOM_VK_F
      [] K = "key_g" -> DOM_VK_G
      [] K = "key_h" -> DOM_VK_H
      [] K = "key_i" -> DOM_VK_I
      [] K = "key_j" -> DOM_VK_J
      [] K = "key_k" -> DOM_VK_K
      [] K = "key_l" -> DOM_VK_L
      [] K = "key_m" -> DOM_VK_M
      [] K = "key_n" -> DOM_VK_N
      [] K = "key_o" -> DOM_VK_O
      [] K = "key_p" -> DOM_VK_P
      [] K = "key_q" -> DOM_VK_Q
      [] K = "key_r" -> DOM_VK_R
      [] K = "key_s" -> DOM_VK_S
      [] K = "key_t" -> DOM_VK_T
      [] K = "key_u" -> DOM_VK_U
      [] K = "key_v" -> DOM_VK_V
      [] K = "key_w" -> DOM_VK_W
      [] K = "key_x" -> DOM_VK_X
      [] K = "key_y" -> DOM_VK_Y
      [] K = "key_z" -> DOM_VK_Z

(* is_K_down for the key identifier K. *)
is_down(K, self) ==
    CASE K = "enter" -> is_enter_down(self)
      [] K = "arrow_left" -> is_arrow_left_down(self)
      [] K = "arrow_up" -> is_arrow_up_down(self)
      [] K = "arrow_right" -> is_arrow_right_down(self)
      [] K = "arrow_down" -> is_arrow_down_down(self)
      [] K = "digit_0" -> is_digit_0_down(self)
      [] K = "digit_1" -> is_digit_1_down(self)
      [] K = "digit_2" -> is_digit_2_down(self)
      [] K = "digit_3" -> is_digit_3_down(self)
      [] K = "digit_4" -> is_digit_4_down(self)
      [] K = "digit_5" -> is_digit_5_down(self)
      [] K = "digit_6" -> is_digit_6_down(self)
      [] K = "digit_7" -> is_digit_7_down(self)
      [] K = "digit_8" -> is_digit_8_down(self)
      [] K = "digit_9" -> is_digit_9_down(self)
      [] K = "key_a" -> is_key_a_down(self)
      [] K = "key_b" -> is_key_b_down(self)
      [] K = "key_c" -> is_key_c_down(self)
      [] K = "key_d" -> is_key_d_down(self)
      [] K = "key_e" -> is_key_e_down(self)
      [] K = "key_f" -> is_key_f_down(self)
      [] K = "key_g" -> is_key_g_down(self)
      [] K = "key_h" -> is_key_h_down(self)
      [] K = "key_i" -> is_key_i_down(self)
      [] K = "key_j" -> is_key_j_down(self)
      [] K = "key_k" -> is_key_k_down(self)
      [] K = "key_l" -> is_key_l_down(self)
      [] K = "key_m" -> is_key_m_down(self)
      [] K = "key_n" -> is_key_n_down(self)
      [] K = "key_o" -> is_key_o_down(self)
      [] K = "key_p" -> is_key_p_down(self)
      [] K = "key_q" -> is_key_q_down(self)
      [] K = "key_r" -> is_key_r_down(self)
      [] K = "key_s" -> is_key_s_down(self)
      [] K = "key_t" -> is_key_t_down(self)
      [] K = "key_u" -> is_key_u_down(self)
      [] K = "key_v" -> is_key_v_down(self)
      [] K = "key_w" -> is_key_w_down(self)
      [] K = "key_x" -> is_key_x_down(self)
      [] K = "key_y" -> is_key_y_down(self)
      [] K = "key_z" -> is_key_z_down(self)
(* ---------------------- the sprite atlas ------------------------------- *)
(* A constructor that stores the source offsets in each other's field. *)
Sprite_new_swaps_offsets(atlas, sx, sy, width, height) ==
    [atlas |-> atlas, sx |-> sy, sy |-> sx, width |-> width, height |-> height]

(* Sprite::new(atlas, sx, sy, width, height); atlas is the shared image. *)
Sprite_new(atlas, sx, sy, width, height) ==
    [atlas |-> atlas, sx |-> sx, sy |-> sy, width |-> width, height |-> height]

NoStore == [store |-> << >>, width_in_tile |-> 0, height_in_tile |-> 0]

(* A row loop that steps the source x by the tile height. *)
RECURSIVE push_row_steps_by_height(_, _, _, _, _, _, _)
push_row_steps_by_height(store, atlas, x, y, width_in_tile, tile_width, tile_height) ==
    IF x >= width_in_tile THEN store
    ELSE push_row_steps_by_height(
             Append(store, Sprite_new(atlas, x * tile_height, y * tile_height,
                                      tile_width, tile_height)),
             atlas, x + 1, y, width_in_tile, tile_width, tile_height)

(* for x in 0..width_in_tile { store.push(Sprite::new(..)) } *)
RECURSIVE push_row(_, _, _, _, _, _, _)
push_row(store, atlas, x, y, width_in_tile, tile_width, tile_height) ==
    IF x >= width_in_tile THEN store
    ELSE push_row(Append(store, Sprite_new(atlas, x * tile_width, y * tile_height,
                                           tile_width, tile_height)),
                  atlas, x + 1, y, width_in_tile, tile_width, tile_height)

(* for y in 0..height_in_tile { for x in 0..width_in_tile { .. } } *)
RECURSIVE push_rows(_, _, _, _, _, _, _)
push_rows(store, atlas, y, height_in_tile, width_in_tile, tile_width, tile_height) ==
    IF y >= height_in_tile THEN store
    ELSE push_rows(push_row(store, atlas, 0, y, width_in_tile, tile_width, tile_height),
                   atlas, y + 1, height_in_tile, width_in_tile, tile_width, tile_height)

(* A constructor that divides the width by the tile height. *)
SpriteStore_new_wrong_divisor(width, height, tile_width, tile_height, image_ok) ==
    IF tile_width = 0
    THEN [status |-> "panic", error |-> "remainder by zero", images |-> 0, value |-> NoStore]
    ELSE IF width % tile_width # 0
    THEN [status |-> "Err", error |-> "width", images |-> 0, value |-> NoStore]
    ELSE IF tile_height = 0
    THEN [status |-> "panic", error |-> "remainder by zero", images |-> 0, value |-> NoStore]
    ELSE IF height % tile_height # 0
    THEN [status |-> "Err", error |-> "height", images |-> 0, value |-> NoStore]
    ELSE IF ~image_ok
    THEN [status |-> "Err", error |-> "image", images |-> 0, value |-> NoStore]
    ELSE LET width_in_tile == width \div tile_height
             height_in_tile == height \div tile_height
         IN  [status |-> "Ok", error |-> "", images |-> 1,
              value |-> [store |-> push_rows(<< >>, "atlas", 0, height_in_tile,
                                             width_in_tile, tile_width, tile_height),
                         width_in_tile |-> width_in_tile,
                         height_in_tile |-> height_in_tile]]

(* A constructor that creates the image first and never checks the height. *)
SpriteStore_new_late_check(width, height, tile_width, tile_height, image_ok) ==
    IF ~image_ok
    THEN [status |-> "Err", error |-> "image", images |-> 0, value |-> NoStore]
    ELSE IF tile_width = 0
    THEN [status |-> "panic", error |-> "remainder by zero", images |-> 1, value |-> NoStore]
    ELSE IF width % tile_width # 0
    THEN [status |-> "Err", error |-> "width", images |-> 1, value |-> NoStore]
    ELSE IF tile_height = 0
    THEN [status |-> "panic", error |-> "division by zero", images |-> 1, value |-> NoStore]
    ELSE LET width_in_tile == width \div tile_width
             height_in_tile == height \div tile_height
         IN  [status |-> "Ok", error |-> "", images |-> 1,
              value |-> [store |-> push_rows(<< >>, "atlas", 0, height_in_tile,
                                             width_in_tile, tile_width, tile_height),
                         width_in_tile |-> width_in_tile,
                         height_in_tile |-> height_in_tile]]

(* SpriteStore::new(bytes, extension, width, height, tile_width, tile_height).
   image_ok is the host's answer to HtmlImageElement::new(); images counts
   the image elements created.  u32 `%` panics on a zero divisor. *)
SpriteStore_new(width, height, tile_width, tile_height, image_ok) ==
    IF tile_width = 0
    THEN [status |-> "panic", error |-> "remainder by zero", images |-> 0, value |-> NoStore]
    ELSE IF width % tile_width # 0
    THEN [status |-> "Err", error |-> "width", images |-> 0, value |-> NoStore]
    ELSE IF tile_height = 0
    THEN [status |-> "panic", error |-> "remainder by zero", images |-> 0, value |-> NoStore]
    ELSE IF height % tile_height # 0
    THEN [status |-> "Err", error |-> "height", images |-> 0, value |-> NoStore]
    ELSE IF ~image_ok
    THEN [status |-> "Err", error |-> "image", images |-> 0, value |-> NoStore]
    ELSE LET width_in_tile == width \div tile_width
             height_in_tile == height \div tile_height
         IN  [status |-> "Ok", error |-> "", images |-> 1,
              value |-> [store |-> push_rows(<< >>, "atlas", 0, height_in_tile,
                                             width_in_tile, tile_width, tile_height),
                         width_in_tile |-> width_in_tile,
                         height_in_tile |-> height_in_tile]]

(* self.store.get(index).with_context(..) *)
sprite(self, index) ==
    IF index < Len(self.store)
    THEN [status |-> "Ok", sprite |-> self.store[index + 1]]
    ELSE [status |-> "Err", sprite |-> << >>]

(* A lookup that computes the index column-major. *)
sprite_by_col_and_row_column_major(self, col, row) ==
    IF ~(col < self.width_in_tile) THEN [status |-> "Err", sprite |-> << >>]
    ELSE IF ~(row < self.height_in_tile) THEN [status |-> "Err", sprite |-> << >>]
    ELSE sprite(self, row + col * self.height_in_tile)

(* ensure!(col < width_in_tile); ensure!(row < height_in_tile);
   self.sprite(col + row * self.width_in_tile) *)
sprite_by_col_and_row(self, col, row) ==
    IF ~(col < self.width_in_tile) THEN [status |-> "Err", sprite |-> << >>]
    ELSE IF ~(row < self.height_in_tile) THEN [status |-> "Err", sprite |-> << >>]
    ELSE sprite(self, col + row * self.width_in_tile)

(* The constructions tried: every size up to the bounds, and the 64x32
   image with 32x32 tiles. *)
AtlasInputs ==
    [width : 0..MaxDim, height : 0..MaxDim,
     tile_width : 0..MaxTile, tile_height : 0..MaxTile, image_ok : BOOLEAN]
    \cup
    [width : {64}, height : {32}, tile_width : {32}, tile_height : {32},
     image_ok : BOOLEAN]

NoAtlas == [status |-> "none", error |-> "", images |-> 0, value |-> NoStore]

(* SpriteBuilder::new(bytes, extension, width, height) of lib.rs: width and
   height are the tile size; create_new_html_image_element unwraps the
   host's answer. *)
SpriteBuilder_new(width, height, image_ok) ==
    IF ~image_ok
    THEN [status |-> "panic", value |-> [atlas |-> "", width |-> 0, height |-> 0]]
    ELSE [status |-> "Ok",
          value |-> [atlas |-> "atlas", width |-> width, height |-> height]]

(* SpriteBuilder::sprite(col, row) of lib.rs: no grid, no bounds check. *)
SpriteBuilder_sprite(self, col, row) ==
    Sprite_new(self.atlas, col * self.width, row * self.height,
               self.width, self.height)

NoBuilder == [status |-> "none", value |-> [atlas |-> "", width |-> 0, height |-> 0]]

NoLookup == [kind |-> "none", col |-> 0, row |-> 0, index |-> 0,
             result |-> [status |-> "none", sprite |-> << >>]]

(* ------------- SpriteStore arithmetic in machine words ----------------- *)
(* One more than the largest u32; usize has the same width on wasm32. *)
Word == 2 ^ WordBits

(* a * b and a + b in a machine word: the wrapped value, and whether the
   true result left the word. *)
word_mul(a, b) == [value |-> (a * b) % Word, overflow |-> a * b >= Word]

word_add(a, b) == [value |-> (a + b) % Word, overflow |-> a + b >= Word]

NoGrid == [store |-> << >>, cells |-> << >>, overflow |-> FALSE, ended |-> ""]

(* A row loop that also visits x == width_in_tile. *)
RECURSIVE push_row_u32_inclusive(_, _, _, _, _, _, _, _, _)
push_row_u32_inclusive(grid, atlas, x, y, width_in_tile, tile_width, tile_height, overflow_checks, memory) ==
    IF x > width_in_tile THEN grid
    ELSE LET sx == word_mul(x, tile_width)
             sy == word_mul(y, tile_height)
             cells == Append(grid.cells, [x |-> x, y |-> y])
             overflow == grid.overflow \/ sx.overflow \/ sy.overflow
         IN  IF (sx.overflow \/ sy.overflow) /\ overflow_checks
             THEN [store |-> grid.store, cells |-> cells,
                   overflow |-> TRUE, ended |-> "panic"]
             ELSE IF Len(grid.store) >= memory
             THEN [store |-> grid.store, cells |-> cells,
                   overflow |-> overflow, ended |-> "abort"]
             ELSE push_row_u32_inclusive(
                      [store |-> Append(grid.store,
                                        Sprite_new(atlas, sx.value, sy.value,
                                                   tile_width, tile_height)),
                       cells |-> cells, overflow |-> overflow, ended |-> ""],
                      atlas, x + 1, y, width_in_tile, tile_width, tile_height,
                      overflow_checks, memory)

(* for x in 0..width_in_tile { store.push(Sprite::new(.., x * tile_width,
   y * tile_height, ..)) } with u32 products.  cells records the (x, y) of
   each iteration begun and overflow whether a product left the word: with
   overflow_checks that product panics, without them it wraps.  memory is
   the number of sprites the host's allocator lets the Vec hold: the push
   beyond it aborts the program.  ended tells how the loop was cut short. *)
RECURSIVE push_row_u32(_, _, _, _, _, _, _, _, _)
push_row_u32(grid, atlas, x, y, width_in_tile, tile_width, tile_height, overflow_checks, memory) ==
    IF x >= width_in_tile THEN grid
    ELSE LET sx == word_mul(x, tile_width)
             sy == word_mul(y, tile_height)
             cells == Append(grid.cells, [x |-> x, y |-> y])
             overflow == grid.overflow \/ sx.overflow \/ sy.overflow
         IN  IF (sx.overflow \/ sy.overflow) /\ overflow_checks
             THEN [store |-> grid.store, cells |-> cells,
                   overflow |-> TRUE, ended |-> "panic"]
             ELSE IF Len(grid.store) >= memory
             THEN [store |-> grid.store, cells |-> cells,
                   overflow |-> overflow, ended |-> "abort"]
             ELSE push_row_u32(
                      [store |-> Append(grid.store,
                                        Sprite_new(atlas, sx.value, sy.value,
                                                   tile_width, tile_height)),
                       cells |-> cells, overflow |-> overflow, ended |-> ""],
                      atlas, x + 1, y, width_in_tile, tile_width, tile_height,
                      overflow_checks, memory)

(* for y in 0..height_in_tile { for x in 0..width_in_tile { .. } }; a panic
   or an abort inside a row ends the call. *)
RECURSIVE push_rows_u32(_, _, _, _, _, _, _, _, _)
push_rows_u32(grid, atlas, y, height_in_tile, width_in_tile, tile_width, tile_height, overflow_checks, memory) ==
    IF y >= height_in_tile \/ grid.ended # "" THEN grid
    ELSE push_rows_u32(push_row_u32(grid, atlas, 0, y, width_in_tile,
                                    tile_width, tile_height, overflow_checks,
                                    memory),
                       atlas, y + 1, height_in_tile, width_in_tile,
                       tile_width, tile_height, overflow_checks, memory)

(* SpriteStore::new on u32 arguments.  overflow_checks is the build's
   setting, memory the number of sprites the host lets the Vec hold; grid
   holds the arithmetic of every loop iteration begun. *)
SpriteStore_new_u32(width, height, tile_width, tile_height, image_ok, overflow_checks, memory) ==
    IF tile_width = 0
    THEN [status |-> "panic", error |-> "remainder by zero", images |-> 0,
          grid |-> NoGrid, value |-> NoStore]
    ELSE IF width % tile_width # 0
    THEN [status |-> "Err", error |-> "width", images |-> 0,
          grid |-> NoGrid, value |-> NoStore]
    ELSE IF tile_height = 0
    THEN [status |-> "panic", error |-> "remainder by zero", images |-> 0,
          grid |-> NoGrid, value |-> NoStore]
    ELSE IF height % tile_height # 0
    THEN [status |-> "Err", error |-> "height", images |-> 0,
          grid |-> NoGrid, value |-> NoStore]
    ELSE IF ~image_ok
    THEN [status |-> "Err", error |-> "image", images |-> 0,
          grid |-> NoGrid, value |-> NoStore]
    ELSE LET width_in_tile == width \div tile_width
             height_in_tile == height \div tile_height
             grid == push_rows_u32(NoGrid, "atlas", 0, height_in_tile,
                                   width_in_tile, tile_width, tile_height,
                                   overflow_checks, memory)
         IN  IF grid.ended = "panic"
             THEN [status |-> "panic", error |-> "multiply with overflow",
                   images |-> 1, grid |-> grid, value |-> NoStore]
             ELSE IF grid.ended = "abort"
             THEN [status |-> "abort", error |-> "memory allocation failed",
                   images |-> 1, grid |-> grid, value |-> NoStore]
             ELSE [status |-> "Ok", error |-> "", images |-> 1, grid |-> grid,
                   value |-> [store |-> grid.store,
                              width_in_tile |-> width_in_tile,
                              height_in_tile |-> height_in_tile]]

(* sprite_by_col_and_row on usize arguments: the two range checks, then
   col + row * self.width_in_tile in usize, then self.sprite(index). *)
sprite_by_col_and_row_usize(self, col, row, overflow_checks) ==
    IF ~(col < self.width_in_tile)
    THEN [status |-> "Err", sprite |-> << >>, index |-> 0, overflow |-> FALSE]
    ELSE IF ~(row < self.height_in_tile)
    THEN [status |-> "Err", sprite |-> << >>, index |-> 0, overflow |-> FALSE]
    ELSE LET product == word_mul(row, self.width_in_tile)
             index == word_add(col, product.value)
             found == sprite(self, index.value)
         IN  IF (product.overflow \/ index.overflow) /\ overflow_checks
             THEN [status |-> "panic", sprite |-> << >>, index |-> index.value,
                   overflow |-> TRUE]
             ELSE [status |-> found.status, sprite |-> found.sprite,
                   index |-> index.value,
                   overflow |-> product.overflow \/ index.overflow]

WordInputs ==
    [width : 0..(Word - 1), height : 0..(Word - 1),
     tile_width : 0..(Word - 1), tile_height : 0..(Word - 1),
     image_ok : BOOLEAN]

AtlasIdle ==
    /\ store_args = [width |-> 0, height |-> 0, tile_width |-> 0,
                     tile_height |-> 0, image_ok |-> FALSE]
    /\ store_result = NoAtlas
    /\ builder = NoBuilder
    /\ lookup = NoLookup
    /\ built = NoAtlas
    /\ lookups_left = 0
    /\ n_failed = 0

(* ---------------------- drawing on the canvas -------------------------- *)
(* f64 values: the integers and NaN. *)
F64(v) == [nan |-> FALSE, v |-> v]

NaN == [nan |-> TRUE, v |-> 0]

(* a + b; NaN if either operand is NaN *)
f64_add(a, b) == IF a.nan \/ b.nan THEN NaN ELSE F64(a.v + b.v)

(* a <= b, a < b, a > b: every comparison with NaN is false *)
f64_le(a, b) == ~a.nan /\ ~b.nan /\ a.v <= b.v

f64_lt(a, b) == ~a.nan /\ ~b.nan /\ a.v < b.v

f64_gt(a, b) == ~a.nan /\ ~b.nan /\ a.v > b.v

(* Renderer::new(context, canvas_width, canvas_height) *)
Renderer_new(canvas_width, canvas_height) ==
    [canvas_width |-> F64(canvas_width), canvas_height |-> F64(canvas_height)]

(* Position::new(dx, dy) and Location::new(dx, dy) *)
Position_new(dx, dy) == [dx |-> dx, dy |-> dy]

(* A draw call trimmed to the part of the sprite right of the canvas's left
   edge. *)
DrawImageCall_trimmed(a_sprite, position) ==
    LET cut == IF f64_lt(position.dx, F64(0)) THEN 0 - position.dx.v ELSE 0
    IN  [method |-> "drawImage",
         args |-> << a_sprite.atlas, F64(a_sprite.sx + cut), F64(a_sprite.sy),
                     F64(a_sprite.width - cut), F64(a_sprite.height),
                     f64_add(position.dx, F64(cut)), position.dy,
                     F64(a_sprite.width - cut), F64(a_sprite.height) >>]

(* context.drawImage(atlas, sx, sy, sw, sh, dx, dy, dw, dh) *)
DrawImageCall(a_sprite, position) ==
    [method |-> "drawImage",
     args |-> << a_sprite.atlas, F64(a_sprite.sx), F64(a_sprite.sy), F64(a_sprite.width),
                 F64(a_sprite.height), position.dx, position.dy,
                 F64(a_sprite.width), F64(a_sprite.height) >>]

(* context.fillText(text, dx, dy) *)
FillTextCall(text, position) ==
    [method |-> "fillText", args |-> << text, position.dx, position.dy >>]

(* render.rs draw_image: ensure!(..) returns Err before any call; the context
   call is issued and its failure is mapped to Err. *)
draw_image(self, a_sprite, position, context_ok) ==
    IF ~(/\ f64_le(F64(0), f64_add(position.dx, F64(a_sprite.width)))
         /\ f64_le(position.dx, self.canvas_width)
         /\ f64_le(F64(0), f64_add(position.dy, F64(a_sprite.height)))
         /\ f64_le(position.dy, self.canvas_height))
    THEN [status |-> "Err", issued |-> << >>]
    ELSE [status |-> IF context_ok THEN "Ok" ELSE "Err",
          issued |-> << DrawImageCall(a_sprite, position) >>]

(* lib.rs Renderer::render: returns quietly when is_outside_of_canvas; the
   context call is issued and its failure is unwrapped. *)
Renderer_render(self, a_sprite, location, context_ok) ==
    LET is_outside_of_canvas ==
            \/ f64_lt(f64_add(location.dx, F64(a_sprite.width)), F64(0))
            \/ f64_gt(location.dx, self.canvas_width)
            \/ f64_lt(f64_add(location.dy, F64(a_sprite.height)), F64(0))
            \/ f64_gt(location.dy, self.canvas_height)
    IN  IF is_outside_of_canvas
        THEN [status |-> "Ok", issued |-> << >>]
        ELSE [status |-> IF context_ok THEN "Ok" ELSE "panic",
              issued |-> << DrawImageCall(a_sprite, location) >>]

(* lib.rs Renderer::text *)
Renderer_text(self, text, location, context_ok) ==
    LET is_outside_of_canvas ==
            \/ f64_lt(location.dx, F64(0))
            \/ f64_gt(location.dx, self.canvas_width)
            \/ f64_lt(location.dy, F64(0))
            \/ f64_gt(location.dy, self.canvas_height)
    IN  IF is_outside_of_canvas
        THEN [status |-> "Ok", issued |-> << >>]
        ELSE [status |-> IF context_ok THEN "Ok" ELSE "panic",
              issued |-> << FillTextCall(text, location) >>]

(* context.clearRect(x, y, w, h) *)
ClearRectCall(x, y, w, h) == [method |-> "clearRect", args |-> << x, y, w, h >>]

(* A clear that passes the canvas height as the width and the width as the
   height. *)
clear_swaps_sides(self) ==
    [status |-> "Ok",
     issued |-> << ClearRectCall(F64(0), F64(0), self.canvas_height,
                                 self.canvas_width) >>]

(* render.rs clear(renderer): one clear_rect, nothing returned. *)
clear(self) ==
    [status |-> "Ok",
     issued |-> << ClearRectCall(F64(0), F64(0), self.canvas_width,
                                 self.canvas_height) >>]

(* lib.rs Renderer::clear(&self) *)
Renderer_clear(self) ==
    [status |-> "Ok",
     issued |-> << ClearRectCall(F64(0), F64(0), self.canvas_width,
                                 self.canvas_height) >>]

NoRenderer == Renderer_new(0, 0)

NoSprite == Sprite_new("image", 0, 0, 0, 0)

NoDraw == [op |-> "none", sprite |-> NoSprite,
           position |-> Position_new(F64(0), F64(0)),
           result |-> [status |-> "none", issued |-> << >>]]

(* Nothing is drawn. *)
DrawIdle ==
    /\ renderer = NoRenderer
    /\ draw = NoDraw
    /\ surface = << >>

(* ------------------------ keyboard events ------------------------------ *)
NoEvent == [type |-> "none", key_code |-> 0]

KeyboardEvent(type, key_code) == [type |-> type, key_code |-> key_code]

RawCodes == 0..MaxRawCode

TrackedCodes == {TrackedCode(K) : K \in KeyEventFields}

(* The key identifiers whose flag is set in a KeyEvent. *)
Held(self) == {K \in KeyEventFields : is_down(K, self)}

(* ------------- KeySpec: the handlers on every raw key code ------------- *)
(* No callback has been invoked: no time was supplied or passed on. *)
NoTimes == [frame |-> 0, update |-> 0, prev_frame |-> 0, prev_update |-> 0]

LoopIdle ==
    /\ variant = "app"
    /\ fault = "none"
    /\ host_clock = 0
    /\ times = NoTimes
    /\ failed_step = "none"
    /\ run_result = "none"
    /\ listeners = {}
    /\ raf_pending = 0
    /\ pc = "idle"
    /\ key_borrow = "free"
    /\ ticks = 0
    /\ in_progress = {}
    /\ calls = << >>
    /\ pending_keys = << >>
    /\ arrivals = 0
    /\ update_keys = KeyEvent_new
    /\ handled = << >>
    /\ keys_at_tick_end = KeyEvent_new

KeyIdle ==
    /\ prev_key_event = KeyEvent_new
    /\ last_event = NoEvent
    /\ repeated = FALSE
    /\ n_events = 0
    /\ history = << >>

KeyInit ==
    /\ LoopIdle
    /\ AtlasIdle
    /\ DrawIdle
    /\ key_event = KeyEvent_new
    /\ prev_key_event = KeyEvent_new
    /\ last_event = NoEvent
    /\ repeated = FALSE
    /\ n_events = 0
    /\ history = << >>

(* keydown_event.borrow_mut().update_on_keydown(event) *)
KeyDown(key_code) ==
    /\ n_events < MaxKeyEvents
    /\ key_event' = update_on_keydown(key_event, key_code)
    /\ prev_key_event' = key_event
    /\ last_event' = KeyboardEvent("keydown", key_code)
    /\ repeated' = (last_event = KeyboardEvent("keydown", key_code))
    /\ n_events' = n_events + 1
    /\ UNCHANGED <<history, loop_vars, atlas_vars, draw_vars>>

(* keyup_event.borrow_mut().update_on_keyup(event) *)
KeyUp(key_code) ==
    /\ n_events < MaxKeyEvents
    /\ key_event' = update_on_keyup(key_event, key_code)
    /\ prev_key_event' = key_event
    /\ last_event' = KeyboardEvent("keyup", key_code)
    /\ repeated' = (last_event = KeyboardEvent("keyup", key_code))
    /\ n_events' = n_events + 1
    /\ UNCHANGED <<history, loop_vars, atlas_vars, draw_vars>>

KeyNext ==
    \/ \E key_code \in RawCodes : KeyDown(key_code)
    \/ \E key_code \in RawCodes : KeyUp(key_code)

KeySpec == KeyInit /\ [][KeyNext]_vars

(* ------- KeySeqSpec: sequences of events on a small keyboard ----------- *)
(* Enter, A, B and the untracked space bar (code 32). *)
SeqCodes == {DOM_VK_RETURN, DOM_VK_A, DOM_VK_B, 32}

SeqKeyDown(key_code) ==
    /\ Len(history) < MaxHistory
    /\ key_event' = update_on_keydown(key_event, key_code)
    /\ history' = Append(history, KeyboardEvent("keydown", key_code))
    /\ UNCHANGED <<prev_key_event, last_event, repeated, n_events, loop_vars, atlas_vars, draw_vars>>

SeqKeyUp(key_code) ==
    /\ Len(history) < MaxHistory
    /\ key_event' = update_on_keyup(key_event, key_code)
    /\ history' = Append(history, KeyboardEvent("keyup", key_code))
    /\ UNCHANGED <<prev_key_event, last_event, repeated, n_events, loop_vars, atlas_vars, draw_vars>>

KeySeqNext ==
    \/ \E key_code \in SeqCodes : SeqKeyDown(key_code)
    \/ \E key_code \in SeqCodes : SeqKeyUp(key_code)

KeySeqSpec == KeyInit /\ [][KeySeqNext]_vars

(* ---------------- Spec: run and the frame loop ------------------------- *)
Variants == {"app", "lib"}

(* A run that registers the key handlers after requesting the first frame. *)
SetupSteps_listeners_last(v) ==
    << "document", "canvas_lookup", "canvas_cast", "context_get",
       "context_some", "context_cast", "request_frame", "keydown_listener",
       "keyup_listener" >>

(* A run that requests the first frame before the rest of its setup. *)
SetupSteps_requests_frame_first(v) ==
    IF v = "app"
    THEN << "document", "request_frame", "keydown_listener", "keyup_listener",
            "canvas_lookup", "canvas_cast", "context_get", "context_some",
            "context_cast" >>
    ELSE << "document", "request_frame", "canvas_lookup", "canvas_cast",
            "context_get", "context_some", "context_cast", "keydown_listener",
            "keyup_listener" >>

(* The fallible steps of run, in the order the revision performs them. *)
SetupSteps(v) ==
    IF v = "app"
    THEN << "document", "keydown_listener", "keyup_listener", "canvas_lookup",
            "canvas_cast", "context_get", "context_some", "context_cast",
            "request_frame" >>
    ELSE << "document", "canvas_lookup", "canvas_cast", "context_get",
            "context_some", "context_cast", "keydown_listener",
            "keyup_listener", "request_frame" >>

(* A run that drops the error of a listener registration. *)
FailureKind_drops_listener_error(v, step) ==
    CASE step \in {"canvas_cast", "context_get", "context_cast"} -> "Err"
      [] step \in {"keydown_listener", "keyup_listener"} -> "Ok"
      [] OTHER -> "panic"

(* How run ends when a step fails: `?` returns Err, unwrap panics. *)
FailureKind(v, step) ==
    CASE step \in {"canvas_cast", "context_get", "context_cast"} -> "Err"
      [] step \in {"keydown_listener", "keyup_listener"} ->
             IF v = "app" THEN "Err" ELSE "panic"
      [] OTHER -> "panic"

(* Which step fails: 0 for none, else its number (both revisions have the
   same number of steps). *)
FailPoints == 0..Len(SetupSteps("app"))

(* The steps run has completed when step number fail_at fails (0: none fails). *)
CompletedSteps(v, fail_at) ==
    LET steps == SetupSteps(v)
        last == IF fail_at = 0 THEN Len(steps) ELSE fail_at - 1
    IN  {steps[i] : i \in 1..last}

(* The events the host delivers in Spec: A, Enter and the untracked space bar. *)
LoopCodes == {DOM_VK_A, DOM_VK_RETURN, 32}

(* The closures registered for "keydown" and "keyup". *)
HandleEvent(self, event) ==
    IF event.type = "keydown"
    THEN update_on_keydown(self, event.key_code)
    ELSE update_on_keyup(self, event.key_code)

RECURSIVE ApplyEvents(_, _)
ApplyEvents(self, events) ==
    IF events = << >> THEN self
    ELSE ApplyEvents(HandleEvent(self, Head(events)), Tail(events))

Init ==
    /\ variant \in Variants
    /\ fault = "none"
    /\ host_clock = 0
    /\ times = NoTimes
    /\ failed_step = "none"
    /\ run_result = "none"
    /\ listeners = {}
    /\ raf_pending = 0
    /\ pc = "idle"
    /\ key_borrow = "free"
    /\ ticks = 0
    /\ in_progress = {}
    /\ calls = << >>
    /\ pending_keys = << >>
    /\ arrivals = 0
    /\ update_keys = KeyEvent_new
    /\ handled = << >>
    /\ keys_at_tick_end = KeyEvent_new
    /\ key_event = KeyEvent_new
    /\ KeyIdle
    /\ AtlasIdle
    /\ DrawIdle

(* run(app, config): setup, then the first request_animation_frame; the
   config asks for a canvas of MaxCanvas x MaxCanvas. *)
Run(fail_at) ==
    /\ run_result = "none"
    /\ run_result' = IF fail_at = 0 THEN "Ok"
                     ELSE FailureKind(variant, SetupSteps(variant)[fail_at])
    /\ listeners' =
          {t \in {"keydown", "keyup"} :
              \/ (t = "keydown" /\ "keydown_listener" \in CompletedSteps(variant, fail_at))
              \/ (t = "keyup" /\ "keyup_listener" \in CompletedSteps(variant, fail_at))}
    /\ raf_pending' = IF "request_frame" \in CompletedSteps(variant, fail_at)
                      THEN 1 ELSE 0
    /\ key_event' = KeyEvent_new
    /\ keys_at_tick_end' = KeyEvent_new
    /\ failed_step' = IF fail_at = 0 THEN "none" ELSE SetupSteps(variant)[fail_at]
    /\ renderer' = IF "context_cast" \in CompletedSteps(variant, fail_at)
                   THEN Renderer_new(MaxCanvas, MaxCanvas)
                   ELSE renderer
    /\ UNCHANGED <<variant, pc, key_borrow, ticks, in_progress, calls,
                   pending_keys, arrivals, update_keys, handled, key_vars,
                   atlas_vars, draw, surface, fault, host_clock, times>>

(* The host queues a keyboard event; it may arrive while a tick is running. *)
KeyArrives(type, key_code) ==
    /\ run_result # "none"
    /\ arrivals < MaxArrivals
    /\ Len(pending_keys) < MaxPending
    /\ pending_keys' = Append(pending_keys, KeyboardEvent(type, key_code))
    /\ arrivals' = arrivals + 1
    /\ UNCHANGED <<key_event, key_vars, atlas_vars, draw_vars, variant,
                   failed_step, fault, host_clock, times, run_result, listeners,
                   raf_pending, pc, key_borrow, ticks, in_progress, calls,
                   update_keys, handled, keys_at_tick_end>>

(* A host that runs a handler in the middle of a tick, on a key state that
   is not guarded by its RefCell. *)
Dispatch_preemptive ==
    /\ pending_keys # << >>
    /\ LET event == Head(pending_keys)
           runs == event.type \in listeners
       IN  /\ key_event' = IF runs THEN HandleEvent(key_event, event) ELSE key_event
           /\ handled' = IF runs THEN Append(handled, event) ELSE handled
    /\ pending_keys' = Tail(pending_keys)
    /\ UNCHANGED <<key_vars, atlas_vars, draw_vars, variant,
                   failed_step, fault, host_clock, times, run_result, listeners, raf_pending, pc,
                   key_borrow, ticks, in_progress, calls, arrivals,
                   update_keys, keys_at_tick_end>>

(* The host dispatches the oldest queued event between turns; a registered
   handler does shared_key_event.borrow_mut().update_on_key*(event). *)
Dispatch ==
    /\ pc \in {"idle", "panicked"}
    /\ pending_keys # << >>
    /\ LET event == Head(pending_keys)
           runs == event.type \in listeners /\ key_borrow = "free"
       IN  /\ key_event' = IF runs THEN HandleEvent(key_event, event) ELSE key_event
           /\ handled' = IF runs THEN Append(handled, event) ELSE handled
    /\ pending_keys' = Tail(pending_keys)
    /\ UNCHANGED <<key_vars, atlas_vars, draw_vars, variant,
                   failed_step, fault, host_clock, times, run_result, listeners, raf_pending, pc,
                   key_borrow, ticks, in_progress, calls, arrivals,
                   update_keys, keys_at_tick_end>>

(* A callback that hands update the number of the frame instead of the time. *)
TickBegin_counts_frames ==
    /\ pc = "idle"
    /\ raf_pending > 0
    /\ raf_pending' = raf_pending - 1
    /\ ticks' = IF ticks < MaxTicks THEN ticks + 1 ELSE MaxTicks
    /\ in_progress' = in_progress \cup {ticks'}
    /\ pc' = "update"
    /\ key_borrow' = "shared"
    /\ calls' = << "update" >>
    /\ update_keys' = key_event
    /\ times' = [frame |-> host_clock, update |-> ticks',
                 prev_frame |-> times.frame, prev_update |-> times.update]
    /\ UNCHANGED <<key_event, key_vars, atlas_vars, draw_vars, variant,
                   failed_step, fault, host_clock, run_result, listeners,
                   pending_keys, arrivals, handled, keys_at_tick_end>>

(* A tick whose update is started without being run to completion. *)
TickBegin_detached ==
    /\ pc = "idle"
    /\ raf_pending > 0
    /\ ticks' = IF ticks < MaxTicks THEN ticks + 1 ELSE MaxTicks
    /\ in_progress' = in_progress \cup {ticks'}
    /\ calls' = << "update" >>
    /\ update_keys' = key_event
    /\ times' = [frame |-> host_clock, update |-> host_clock,
                 prev_frame |-> times.frame, prev_update |-> times.update]
    /\ UNCHANGED <<key_event, key_vars, atlas_vars, draw_vars, variant,
                   failed_step, fault, host_clock, run_result, listeners,
                   raf_pending, pc, key_borrow, pending_keys, arrivals,
                   handled, keys_at_tick_end>>

(* A tick that hands update the key state of the previous tick. *)
TickBegin_stale_keys ==
    /\ pc = "idle"
    /\ raf_pending > 0
    /\ raf_pending' = raf_pending - 1
    /\ ticks' = IF ticks < MaxTicks THEN ticks + 1 ELSE MaxTicks
    /\ in_progress' = in_progress \cup {ticks'}
    /\ pc' = "update"
    /\ key_borrow' = "shared"
    /\ calls' = << "update" >>
    /\ update_keys' = keys_at_tick_end
    /\ times' = [frame |-> host_clock, update |-> host_clock,
                 prev_frame |-> times.frame, prev_update |-> times.update]
    /\ UNCHANGED <<key_event, key_vars, atlas_vars, draw_vars, variant,
                   failed_step, fault, host_clock, run_result, listeners,
                   pending_keys, arrivals, handled, keys_at_tick_end>>

(* The host invokes the frame callback with its clock's value as `time`:
   app_cloned.borrow_mut().update(time, &shared_key_event.borrow()) *)
TickBegin ==
    /\ pc = "idle"
    /\ raf_pending > 0
    /\ raf_pending' = raf_pending - 1
    /\ ticks' = IF ticks < MaxTicks THEN ticks + 1 ELSE MaxTicks
    /\ in_progress' = in_progress \cup {ticks'}
    /\ pc' = "update"
    /\ key_borrow' = "shared"
    /\ calls' = << "update" >>
    /\ update_keys' = key_event
    /\ times' = [frame |-> host_clock, update |-> host_clock,
                 prev_frame |-> times.frame, prev_update |-> times.update]
    /\ UNCHANGED <<key_event, key_vars, atlas_vars, draw_vars, variant,
                   failed_step, fault, host_clock, run_result, listeners,
                   pending_keys, arrivals, handled, keys_at_tick_end>>

(* A callback that catches a panic of update and goes on to render. *)
UpdateReturn_catches_panic(outcome) ==
    /\ pc = "update"
    /\ pc' = "render"
    /\ key_borrow' = "free"
    /\ calls' = Append(calls, "render")
    /\ fault' = IF outcome = "ok" THEN fault ELSE "update"
    /\ UNCHANGED <<key_event, key_vars, atlas_vars, draw_vars, variant,
                   failed_step, host_clock, times, run_result, listeners,
                   raf_pending, ticks, in_progress, pending_keys, arrivals,
                   update_keys, handled, keys_at_tick_end>>

(* An update that clears the key state it was handed. *)
UpdateReturn_clears_keys(outcome) ==
    /\ pc = "update"
    /\ key_event' = KeyEvent_new
    /\ IF outcome = "ok"
       THEN /\ pc' = "render"
            /\ key_borrow' = "free"
            /\ calls' = Append(calls, "render")
       ELSE /\ pc' = "panicked"
            /\ UNCHANGED <<key_borrow, calls>>
    /\ fault' = IF outcome = "ok" THEN fault ELSE "update"
    /\ UNCHANGED <<key_vars, atlas_vars, draw_vars, variant,
                   failed_step, host_clock, times, run_result, listeners,
                   raf_pending, ticks, in_progress, pending_keys, arrivals,
                   update_keys, handled, keys_at_tick_end>>

(* A callback that requests the next frame before it renders. *)
UpdateReturn_requests_first(outcome) ==
    /\ pc = "update"
    /\ IF outcome = "ok"
       THEN /\ pc' = "render"
            /\ key_borrow' = "free"
            /\ raf_pending' = raf_pending + 1
            /\ calls' = calls \o << "request", "render" >>
       ELSE /\ pc' = "panicked"
            /\ UNCHANGED <<key_borrow, calls, raf_pending>>
    /\ fault' = IF outcome = "ok" THEN fault ELSE "update"
    /\ UNCHANGED <<key_event, key_vars, atlas_vars, draw_vars, variant,
                   failed_step, host_clock, times, run_result, listeners,
                   ticks, in_progress, pending_keys, arrivals,
                   update_keys, handled, keys_at_tick_end>>

(* update returns (or panics); on return the borrow of the key state ends and
   app_cloned.borrow().render(&renderer) is invoked. *)
UpdateReturn(outcome) ==
    /\ pc = "update"
    /\ IF outcome = "ok"
       THEN /\ pc' = "render"
            /\ key_borrow' = "free"
            /\ calls' = Append(calls, "render")
       ELSE /\ pc' = "panicked"
            /\ UNCHANGED <<key_borrow, calls>>
    /\ fault' = IF outcome = "ok" THEN fault ELSE "update"
    /\ UNCHANGED <<key_event, key_vars, atlas_vars, draw_vars, variant,
                   failed_step, host_clock, times, run_result, listeners,
                   raf_pending, ticks, in_progress, pending_keys, arrivals,
                   update_keys, handled, keys_at_tick_end>>

(* A callback that ends without requesting the next frame. *)
RenderReturn_without_request(outcome) ==
    /\ pc = "render"
    /\ IF outcome = "ok"
       THEN /\ pc' = "idle"
            /\ calls' = Append(calls, "request")
            /\ in_progress' = in_progress \ {ticks}
            /\ keys_at_tick_end' = key_event
            /\ handled' = << >>
       ELSE IF outcome = "rejected"
       THEN /\ pc' = "panicked"
            /\ calls' = Append(calls, "request (rejected)")
            /\ UNCHANGED <<in_progress, keys_at_tick_end, handled>>
       ELSE /\ pc' = "panicked"
            /\ UNCHANGED <<calls, in_progress, keys_at_tick_end, handled>>
    /\ fault' = IF outcome = "ok" THEN fault
              ELSE IF outcome = "rejected" THEN "request" ELSE "render"
    /\ UNCHANGED <<key_event, key_vars, atlas_vars, draw_vars, variant,
                   failed_step, host_clock, times, run_result, listeners, raf_pending,
                   key_borrow, ticks, pending_keys, arrivals, update_keys>>

(* An application whose render unwraps the result of its draw, in a
   callback that gives up on the error. *)
RenderReturn_unwraps_rejection(outcome) ==
    /\ pc = "render"
    /\ IF outcome = "ok" /\ draw.result.status # "Err"
       THEN /\ pc' = "idle"
            /\ raf_pending' = raf_pending + 1
            /\ calls' = Append(calls, "request")
            /\ in_progress' = in_progress \ {ticks}
            /\ keys_at_tick_end' = key_event
            /\ handled' = << >>
            /\ fault' = fault
       ELSE IF outcome = "rejected" /\ draw.result.status # "Err"
       THEN /\ pc' = "panicked"
            /\ fault' = "request"
            /\ calls' = Append(calls, "request (rejected)")
            /\ UNCHANGED <<raf_pending, in_progress, keys_at_tick_end, handled>>
       ELSE /\ pc' = "panicked"
            /\ fault' = "render"
            /\ UNCHANGED <<raf_pending, calls, in_progress, keys_at_tick_end,
                           handled>>
    /\ UNCHANGED <<key_event, key_vars, atlas_vars, draw_vars, variant,
                   failed_step, host_clock, times, run_result, listeners,
                   key_borrow, ticks, pending_keys, arrivals, update_keys>>

(* A callback that requests the next frame twice. *)
RenderReturn_requests_twice(outcome) ==
    /\ pc = "render"
    /\ IF outcome = "ok"
       THEN /\ pc' = "idle"
            /\ raf_pending' = raf_pending + 2
            /\ calls' = Append(calls, "request")
            /\ in_progress' = in_progress \ {ticks}
            /\ keys_at_tick_end' = key_event
            /\ handled' = << >>
       ELSE IF outcome = "rejected"
       THEN /\ pc' = "panicked"
            /\ calls' = Append(calls, "request (rejected)")
            /\ UNCHANGED <<raf_pending, in_progress, keys_at_tick_end, handled>>
       ELSE /\ pc' = "panicked"
            /\ UNCHANGED <<raf_pending, calls, in_progress, keys_at_tick_end,
                           handled>>
    /\ fault' = IF outcome = "ok" THEN fault
              ELSE IF outcome = "rejected" THEN "request" ELSE "render"
    /\ UNCHANGED <<key_event, key_vars, atlas_vars, draw_vars, variant,
                   failed_step, host_clock, times, run_result, listeners,
                   key_borrow, ticks, pending_keys, arrivals, update_keys>>

(* render returns (or panics); on return the callback calls
   request_animation_frame(f.borrow().as_ref().unwrap()), which unwraps the
   window and the host's answer: outcome "ok" is a granted request and ends
   the tick, outcome "rejected" is a missing window or a refused request,
   a panic of the callback after render returned. *)
RenderReturn(outcome) ==
    /\ pc = "render"
    /\ IF outcome = "ok"
       THEN /\ pc' = "idle"
            /\ raf_pending' = raf_pending + 1
            /\ calls' = Append(calls, "request")
            /\ in_progress' = in_progress \ {ticks}
            /\ keys_at_tick_end' = key_event
            /\ handled' = << >>
       ELSE IF outcome = "rejected"
       THEN /\ pc' = "panicked"
            /\ calls' = Append(calls, "request (rejected)")
            /\ UNCHANGED <<raf_pending, in_progress, keys_at_tick_end, handled>>
       ELSE /\ pc' = "panicked"
            /\ UNCHANGED <<raf_pending, calls, in_progress, keys_at_tick_end,
                           handled>>
    /\ fault' = IF outcome = "ok" THEN fault
              ELSE IF outcome = "rejected" THEN "request" ELSE "render"
    /\ UNCHANGED <<key_event, key_vars, atlas_vars, draw_vars, variant,
                   failed_step, host_clock, times, run_result, listeners,
                   key_borrow, ticks, pending_keys, arrivals, update_keys>>

Outcomes == {"ok", "panic"}

RenderOutcomes == {"ok", "panic", "rejected"}

Next ==
    \/ \E fail_at \in FailPoints : Run(fail_at)
    \/ \E type \in {"keydown", "keyup"}, key_code \in LoopCodes :
           KeyArrives(type, key_code)
    \/ Dispatch
    \/ TickBegin
    \/ \E outcome \in Outcomes : UpdateReturn(outcome)
    \/ \E outcome \in RenderOutcomes : RenderReturn(outcome)

Spec == Init /\ [][Next]_vars

(* Time passes on the host's clock. *)
ClockAdvance ==
    /\ host_clock < MaxClock
    /\ host_clock' = host_clock + 1
    /\ UNCHANGED <<key_event, key_vars, atlas_vars, draw_vars, variant,
                   failed_step, fault, times, run_result, listeners, raf_pending,
                   pc, key_borrow, ticks, in_progress, calls, pending_keys,
                   arrivals, update_keys, handled, keys_at_tick_end>>

(* The loop on a host whose clock advances; no key is pressed. *)
TimeNext ==
    \/ \E fail_at \in FailPoints : Run(fail_at)
    \/ ClockAdvance
    \/ TickBegin
    \/ \E outcome \in Outcomes : UpdateReturn(outcome)
    \/ \E outcome \in RenderOutcomes : RenderReturn(outcome)

TimeSpec == Init /\ [][TimeNext]_vars

(* ------------------ AtlasSpec: SpriteStore::new ------------------------ *)
AtlasInit ==
    /\ LoopIdle
    /\ key_event = KeyEvent_new
    /\ KeyIdle
    /\ DrawIdle
    /\ store_args \in AtlasInputs
    /\ store_result = NoAtlas
    /\ builder = NoBuilder
    /\ lookup = NoLookup
    /\ built = NoAtlas
    /\ lookups_left = 1
    /\ n_failed = 0

(* let store = SpriteStore::new(..) *)
AtlasNew ==
    /\ store_result.status = "none"
    /\ store_result' = SpriteStore_new(store_args.width, store_args.height,
                                store_args.tile_width, store_args.tile_height,
                                store_args.image_ok)
    /\ built' = store_result'
    /\ UNCHANGED <<store_args, builder, lookup, lookups_left, n_failed, key_event,
                   key_vars, loop_vars, draw_vars>>

(* let builder = SpriteBuilder::new(bytes, extension, tile_width, tile_height) *)
BuilderNew ==
    /\ builder.status = "none"
    /\ builder' = SpriteBuilder_new(store_args.tile_width, store_args.tile_height,
                                    store_args.image_ok)
    /\ UNCHANGED <<store_args, store_result, lookup, built, lookups_left, n_failed,
                   key_event, key_vars, loop_vars, draw_vars>>

(* A lookup that empties the store when the index is out of range. *)
LookupIndex_poisons(index) ==
    /\ store_result.status = "Ok"
    /\ lookups_left > 0
    /\ lookup' = [kind |-> "sprite", col |-> 0, row |-> 0, index |-> index,
                  result |-> sprite(store_result.value, index)]
    /\ lookups_left' = lookups_left - 1
    /\ n_failed' = IF lookup'.result.status = "Err" THEN n_failed + 1 ELSE n_failed
    /\ store_result' = IF lookup'.result.status = "Err"
                       THEN [store_result EXCEPT !.value.store = << >>]
                       ELSE store_result
    /\ UNCHANGED <<store_args, builder, built, key_event, key_vars,
                   loop_vars, draw_vars>>

(* store.sprite(index): a shared borrow of the store; a behaviour makes as
   many lookups as lookups_left allows *)
LookupIndex(index) ==
    /\ store_result.status = "Ok"
    /\ lookups_left > 0
    /\ lookup' = [kind |-> "sprite", col |-> 0, row |-> 0, index |-> index,
                  result |-> sprite(store_result.value, index)]
    /\ lookups_left' = lookups_left - 1
    /\ n_failed' = IF lookup'.result.status = "Err" THEN n_failed + 1 ELSE n_failed
    /\ UNCHANGED <<store_args, store_result, builder, built, key_event, key_vars,
                   loop_vars, draw_vars>>

(* store.sprite_by_col_and_row(col, row) *)
LookupColRow(col, row) ==
    /\ store_result.status = "Ok"
    /\ lookups_left > 0
    /\ lookup' = [kind |-> "sprite_by_col_and_row", col |-> col, row |-> row,
                  index |-> 0,
                  result |-> sprite_by_col_and_row(store_result.value, col, row)]
    /\ lookups_left' = lookups_left - 1
    /\ n_failed' = IF lookup'.result.status = "Err" THEN n_failed + 1 ELSE n_failed
    /\ UNCHANGED <<store_args, store_result, builder, built, key_event, key_vars,
                   loop_vars, draw_vars>>

(* builder.sprite(col, row): always a Sprite *)
BuilderLookup(col, row) ==
    /\ builder.status = "Ok"
    /\ lookups_left > 0
    /\ lookup' = [kind |-> "SpriteBuilder::sprite", col |-> col, row |-> row,
                  index |-> 0,
                  result |-> [status |-> "Ok",
                              sprite |-> SpriteBuilder_sprite(builder.value, col, row)]]
    /\ lookups_left' = lookups_left - 1
    /\ n_failed' = IF lookup'.result.status = "Err" THEN n_failed + 1 ELSE n_failed
    /\ UNCHANGED <<store_args, store_result, builder, built, key_event, key_vars,
                   loop_vars, draw_vars>>

AtlasNext ==
    \/ AtlasNew
    \/ BuilderNew
    \/ \E index \in 0..MaxIndex : LookupIndex(index)
    \/ \E col \in 0..MaxCoord, row \in 0..MaxCoord : LookupColRow(col, row)
    \/ \E col \in -1..MaxCoord, row \in -1..MaxCoord : BuilderLookup(col, row)

AtlasSpec == AtlasInit /\ [][AtlasNext]_vars

(* ------------ AtlasSeqSpec: sequences of lookups on one store ---------- *)
AtlasSeqInit ==
    /\ LoopIdle
    /\ key_event = KeyEvent_new
    /\ KeyIdle
    /\ DrawIdle
    /\ store_args \in [width : 0..MaxSeqDim, height : 0..MaxSeqDim,
                        tile_width : 0..MaxSeqTile, tile_height : 0..MaxSeqTile,
                        image_ok : BOOLEAN]
    /\ store_result = NoAtlas
    /\ builder = NoBuilder
    /\ lookup = NoLookup
    /\ built = NoAtlas
    /\ lookups_left = MaxLookups
    /\ n_failed = 0

AtlasSeqNext ==
    \/ AtlasNew
    \/ \E index \in 0..MaxSeqIndex : LookupIndex(index)
    \/ \E col \in 0..MaxSeqCoord, row \in 0..MaxSeqCoord : LookupColRow(col, row)

AtlasSeqSpec == AtlasSeqInit /\ [][AtlasSeqNext]_vars

(* ------------- DrawSpec: drawing sprites and text ---------------------- *)
(* The coordinates drawn at: around the canvas and the sprite, and NaN. *)
Coords == {F64(v) : v \in (0 - MaxSprite - 1)..(MaxCanvas + 1)} \cup {NaN}

DrawInit ==
    /\ LoopIdle
    /\ key_event = KeyEvent_new
    /\ KeyIdle
    /\ AtlasIdle
    /\ \E canvas_width \in 0..MaxCanvas, canvas_height \in 0..MaxCanvas :
           renderer = Renderer_new(canvas_width, canvas_height)
    /\ draw = NoDraw
    /\ surface = << >>

(* draw_image(&renderer, &sprite, position); a behaviour makes one drawing
   operation, and what it issued reaches the rendering context. *)
DrawImage(width, height, dx, dy, context_ok) ==
    /\ draw.op = "none"
    /\ draw' = [op |-> "draw_image",
                sprite |-> Sprite_new("image", width, 0, width, height),
                position |-> Position_new(dx, dy),
                result |-> draw_image(renderer,
                                      Sprite_new("image", width, 0, width, height),
                                      Position_new(dx, dy), context_ok)]
    /\ surface' = surface \o draw'.result.issued
    /\ UNCHANGED <<renderer, key_event, key_vars, loop_vars, atlas_vars>>

(* renderer.render(sprite, location) *)
RendererRender(width, height, dx, dy, context_ok) ==
    /\ draw.op = "none"
    /\ draw' = [op |-> "Renderer::render",
                sprite |-> Sprite_new("image", width, 0, width, height),
                position |-> Position_new(dx, dy),
                result |-> Renderer_render(renderer,
                                           Sprite_new("image", width, 0, width, height),
                                           Position_new(dx, dy), context_ok)]
    /\ surface' = surface \o draw'.result.issued
    /\ UNCHANGED <<renderer, key_event, key_vars, loop_vars, atlas_vars>>

(* renderer.text(text, location) *)
RendererText(dx, dy, context_ok) ==
    /\ draw.op = "none"
    /\ draw' = [op |-> "Renderer::text",
                sprite |-> NoSprite,
                position |-> Position_new(dx, dy),
                result |-> Renderer_text(renderer, "text", Position_new(dx, dy),
                                         context_ok)]
    /\ surface' = surface \o draw'.result.issued
    /\ UNCHANGED <<renderer, key_event, key_vars, loop_vars, atlas_vars>>

(* clear(&renderer), after whatever was drawn or rejected before it; the
   record keeps the sprite and position of the operation that preceded. *)
Clear ==
    /\ draw.op \notin {"clear", "Renderer::clear"}
    /\ draw' = [draw EXCEPT !.op = "clear", !.result = clear(renderer)]
    /\ surface' = surface \o draw'.result.issued
    /\ UNCHANGED <<renderer, key_event, key_vars, loop_vars, atlas_vars>>

(* renderer.clear() *)
RendererClear ==
    /\ draw.op \notin {"clear", "Renderer::clear"}
    /\ draw' = [draw EXCEPT !.op = "Renderer::clear", !.result = Renderer_clear(renderer)]
    /\ surface' = surface \o draw'.result.issued
    /\ UNCHANGED <<renderer, key_event, key_vars, loop_vars, atlas_vars>>

DrawNext ==
    \/ \E width \in 0..MaxSprite, height \in 0..MaxSprite,
          dx \in Coords, dy \in Coords, context_ok \in BOOLEAN :
           DrawImage(width, height, dx, dy, context_ok)
    \/ \E width \in 0..MaxSprite, height \in 0..MaxSprite,
          dx \in Coords, dy \in Coords, context_ok \in BOOLEAN :
           RendererRender(width, height, dx, dy, context_ok)
    \/ \E dx \in Coords, dy \in Coords, context_ok \in BOOLEAN :
           RendererText(dx, dy, context_ok)
    \/ Clear
    \/ RendererClear

DrawSpec == DrawInit /\ [][DrawNext]_vars

(* ------------ RenderSpec: draws made by the application's render ------- *)
(* render calls draw_image(renderer, &sprite, position) (the app.rs revision) *)
RenderDrawsImage(dx, dy) ==
    /\ pc = "render"
    /\ variant = "app"
    /\ DrawImage(MaxSprite, MaxSprite, dx, dy, TRUE)

(* render calls renderer.render(sprite, location) (the lib.rs revision) *)
RenderDrawsSprite(dx, dy) ==
    /\ pc = "render"
    /\ variant = "lib"
    /\ RendererRender(MaxSprite, MaxSprite, dx, dy, TRUE)

(* render calls renderer.text(text, location) (the lib.rs revision) *)
RenderDrawsText(dx, dy) ==
    /\ pc = "render"
    /\ variant = "lib"
    /\ RendererText(dx, dy, TRUE)

RenderNext ==
    \/ \E fail_at \in FailPoints : Run(fail_at)
    \/ TickBegin
    \/ UpdateReturn("ok")
    \/ \E dx \in Coords, dy \in Coords : RenderDrawsImage(dx, dy)
    \/ \E dx \in Coords, dy \in Coords : RenderDrawsSprite(dx, dy)
    \/ \E dx \in Coords, dy \in Coords : RenderDrawsText(dx, dy)
    \/ \E outcome \in {"ok", "rejected"} : RenderReturn(outcome)

(* The loop while update and render return normally, whatever the draws made
   inside render returned, and the host keeps invoking the callbacks; the
   host may refuse a frame request. *)
RenderSpec ==
    /\ Init
    /\ [][RenderNext]_vars
    /\ WF_vars(TickBegin)
    /\ WF_vars(UpdateReturn("ok"))
    /\ WF_vars(RenderReturn("ok"))

(* ------- LiveSpec: the loop under the provisos of its liveness --------- *)
(* Where render draws in LiveSpec: inside the canvas (accepted) and right
   of it (rejected). *)
LiveCoords == {F64(0), F64(MaxCanvas + 1)}

(* The loop while update and render return normally and the host keeps
   invoking the frame callbacks it granted; key events arrive, render draws
   inside and outside the canvas, and the host may refuse a frame request,
   which traps the callback after render. *)
LiveNext ==
    \/ \E fail_at \in FailPoints : Run(fail_at)
    \/ \E type \in {"keydown", "keyup"}, key_code \in LoopCodes :
           KeyArrives(type, key_code)
    \/ Dispatch
    \/ TickBegin
    \/ UpdateReturn("ok")
    \/ \E dx \in LiveCoords : RenderDrawsImage(dx, F64(0))
    \/ \E dx \in LiveCoords : RenderDrawsSprite(dx, F64(0))
    \/ \E dx \in LiveCoords : RenderDrawsText(dx, F64(0))
    \/ \E outcome \in {"ok", "rejected"} : RenderReturn(outcome)

LiveSpec ==
    /\ Init
    /\ [][LiveNext]_vars
    /\ WF_vars(TickBegin)
    /\ WF_vars(UpdateReturn("ok"))
    /\ WF_vars(RenderReturn("ok"))

(* ------- WordSpec: SpriteStore over every value of a machine word ------ *)
WordInit ==
    /\ LoopIdle
    /\ key_event = KeyEvent_new
    /\ KeyIdle
    /\ DrawIdle
    /\ store_args \in WordInputs
    /\ store_result = NoAtlas
    /\ builder = NoBuilder
    /\ lookup = NoLookup
    /\ built = NoAtlas
    /\ lookups_left = 1
    /\ n_failed = 0

(* let store = SpriteStore::new(..), in a build with or without overflow
   checks, on a host whose memory holds `memory` sprites *)
WordNew(overflow_checks, memory) ==
    /\ store_result.status = "none"
    /\ store_result' = SpriteStore_new_u32(store_args.width, store_args.height,
                                           store_args.tile_width,
                                           store_args.tile_height,
                                           store_args.image_ok, overflow_checks,
                                           memory)
    /\ built' = store_result'
    /\ UNCHANGED <<store_args, builder, lookup, lookups_left, n_failed, key_event,
                   key_vars, loop_vars, draw_vars>>

(* store.sprite_by_col_and_row(col, row) with usize arguments *)
WordLookup(col, row, overflow_checks) ==
    /\ store_result.status = "Ok"
    /\ lookups_left > 0
    /\ lookup' = [kind |-> "sprite_by_col_and_row", col |-> col, row |-> row,
                  index |-> 0,
                  result |-> sprite_by_col_and_row_usize(store_result.value, col,
                                                         row, overflow_checks)]
    /\ lookups_left' = lookups_left - 1
    /\ n_failed' = IF lookup'.result.status = "Err" THEN n_failed + 1 ELSE n_failed
    /\ UNCHANGED <<store_args, store_result, builder, built, key_event, key_vars,
                   loop_vars, draw_vars>>

WordNext ==
    \/ \E overflow_checks \in BOOLEAN, memory \in 0..MaxMemory :
           WordNew(overflow_checks, memory)
    \/ \E col \in 0..(Word - 1), row \in 0..(Word - 1), overflow_checks \in BOOLEAN :
           WordLookup(col, row, overflow_checks)

WordSpec == WordInit /\ [][WordNext]_vars

(* ------------------------------ claims --------------------------------- *)

(* C1: in every tick update is invoked exactly once, then render exactly
   once, then the next tick is requested exactly once, in that order; a
   request the host refuses is still the one request of its tick. *)
C1_TickOrder ==
    /\ pc = "update" => calls = << "update" >>
    /\ pc = "render" => calls = << "update", "render" >>
    /\ (pc = "idle" /\ ticks > 0) => calls = << "update", "render", "request" >>
    /\ fault = "request" =>
           calls = << "update", "render", "request (rejected)" >>
    /\ \A i, j \in 1..Len(calls) :
          /\ (calls[i] = "update" /\ calls[j] = "render") => i < j
          /\ (calls[i] = "render"
              /\ calls[j] \in {"request", "request (rejected)"}) => i < j

(* The second tick has completed: update, render, request. *)
C1_Witness ==
    /\ ticks = 2
    /\ pc = "idle"
    /\ raf_pending = 1
    /\ calls = << "update", "render", "request" >>

(* C2: the update/render pair of tick N completes before the update of tick
   N+1 starts: never two ticks in progress, and a running tick is the only
   one in progress. *)
C2_NoOverlap ==
    /\ Cardinality(in_progress) <= 1
    /\ pc \in {"update", "render"} => in_progress = {ticks}
    /\ pc = "idle" => in_progress = {}

(* Tick 2 is running its render after tick 1 completed. *)
C2_Witness ==
    /\ ticks = 2
    /\ pc = "render"
    /\ in_progress = {2}

(* C3: the key state passed to update in tick N+1 reflects every event
   handled since the end of tick N, in arrival order, and the key state does
   not change between the start of update and the end of render. *)
C3_KeysVisibleNextTick ==
    pc \in {"update", "render"} =>
        /\ update_keys = ApplyEvents(keys_at_tick_end, handled)
        /\ key_event = update_keys

(* Tick 2 sees A pressed between the ticks, while a later event waits. *)
C3_Witness ==
    /\ ticks = 2
    /\ pc = "render"
    /\ handled = << KeyboardEvent("keydown", DOM_VK_A) >>
    /\ is_key_a_down(update_keys)
    /\ pending_keys = << KeyboardEvent("keyup", DOM_VK_A) >>



(* C4: for every tracked key K and every prior key state, after
   update_on_keydown with K's raw code is_K_down() is true, and after
   update_on_keyup with K's raw code is_K_down() is false. *)
C4_PressSetsReleaseClears ==
    \A K \in KeyEventFields :
        /\ last_event = KeyboardEvent("keydown", TrackedCode(K))
              => is_down(K, key_event) = TRUE
        /\ last_event = KeyboardEvent("keyup", TrackedCode(K))
              => is_down(K, key_event) = FALSE

(* A key that was held has been released while another key stays held. *)
C4_Witness ==
    /\ last_event = KeyboardEvent("keyup", DOM_VK_B)
    /\ is_key_b_down(prev_key_event)
    /\ ~is_key_b_down(key_event)

(* The last event per key in a history: "none", "keydown" or "keyup". *)
RECURSIVE LastEventFor(_, _)
LastEventFor(h, key_code) ==
    IF h = << >> THEN "none"
    ELSE IF h[Len(h)].key_code = key_code THEN h[Len(h)].type
    ELSE LastEventFor(SubSeq(h, 1, Len(h) - 1), key_code)

(* C5: starting from KeyEvent::new and after any sequence of press and
   release events, the flag of each tracked key K is true iff at least one
   event with K's code occurred and the most recent one was a press; press A,
   press Enter, release A leaves only the Enter flag true. *)
C5_FlagIsLastEvent ==
    /\ \A K \in KeyEventFields :
          is_down(K, key_event) <=> (LastEventFor(history, TrackedCode(K)) = "keydown")
    /\ history = << KeyboardEvent("keydown", DOM_VK_A),
                    KeyboardEvent("keydown", DOM_VK_RETURN),
                    KeyboardEvent("keyup", DOM_VK_A) >>
          => Held(key_event) = {"enter"}

(* The scenario press A, press Enter, release A has been played. *)
C5_Witness ==
    /\ history = << KeyboardEvent("keydown", DOM_VK_A),
                    KeyboardEvent("keydown", DOM_VK_RETURN),
                    KeyboardEvent("keyup", DOM_VK_A) >>
    /\ is_enter_down(key_event)
    /\ ~is_key_a_down(key_event)

(* C6: for every raw key code outside the tracked vocabulary, both
   update_on_keydown and update_on_keyup leave all 41 flags unchanged. *)
C6_UntrackedIsNoOp ==
    (last_event.type \in {"keydown", "keyup"} /\ last_event.key_code \notin TrackedCodes)
        => \A f \in KeyEventFields : key_event[f] = prev_key_event[f]

(* An untracked key was released while a tracked key was held. *)
C6_Witness ==
    /\ last_event = KeyboardEvent("keyup", DOM_VK_Z + 1)
    /\ Held(prev_key_event) = {"key_z"}
    /\ Held(key_event) = {"key_z"}

(* C7: press and release are idempotent: handling the same event twice
   leaves the state as handling it once, and a release after repeated
   presses of K leaves K's flag false. *)
C7_Idempotent ==
    repeated =>
        /\ key_event = prev_key_event
        /\ \A K \in KeyEventFields :
              last_event = KeyboardEvent("keydown", TrackedCode(K))
                 => ~is_down(K, update_on_keyup(key_event, TrackedCode(K)))

(* A press was repeated (key repeat) and the key is held. *)
C7_Witness ==
    /\ repeated
    /\ last_event = KeyboardEvent("keydown", DOM_VK_A)
    /\ is_key_a_down(key_event)

(* Every flag set: the state in which a release is visible on any flag. *)
AllHeld == [f \in KeyEventFields |-> TRUE]

(* The flags a press of key_code sets, and the flags its release clears. *)
KeydownFlags(key_code) == Held(update_on_keydown(KeyEvent_new, key_code))
KeyupFlags(key_code) == KeyEventFields \ Held(update_on_keyup(AllHeld, key_code))

(* Every tracked code has one flag, the same for press and release, and
   different codes have different flags. *)
OneFlagPerCode ==
    /\ \A c \in TrackedCodes :
          /\ Cardinality(KeydownFlags(c)) = 1
          /\ KeyupFlags(c) = KeydownFlags(c)
    /\ Cardinality({KeydownFlags(c) : c \in TrackedCodes}) = Cardinality(TrackedCodes)
    /\ Cardinality(TrackedCodes) = Cardinality(KeyEventFields)

(* C8: each tracked code maps to exactly one flag and no two tracked codes
   map to the same flag: a press or release of K changes at most K's flag
   and leaves the other 40 flags unchanged. *)
C8_OneFlagPerCode ==
    /\ OneFlagPerCode
    /\ \A K \in KeyEventFields :
          (last_event.type \in {"keydown", "keyup"} /\ last_event.key_code = TrackedCode(K))
             => \A f \in KeyEventFields \ {K} : key_event[f] = prev_key_event[f]

(* Key B was pressed while A was held: both flags are set. *)
C8_Witness ==
    /\ last_event = KeyboardEvent("keydown", DOM_VK_B)
    /\ Held(prev_key_event) = {"key_a"}
    /\ Held(key_event) = {"key_a", "key_b"}


(* The arguments satisfy both divisibility conditions. *)
Divisible(a) ==
    /\ a.tile_width # 0
    /\ a.tile_height # 0
    /\ a.width % a.tile_width = 0
    /\ a.height % a.tile_height = 0

(* What C9 promises of a built atlas. *)
FullGrid(a, r) ==
    /\ r.status = "Ok"
    /\ Len(r.value.store) = (a.width \div a.tile_width) * (a.height \div a.tile_height)
    /\ r.value.width_in_tile = a.width \div a.tile_width
    /\ r.value.height_in_tile = a.height \div a.tile_height
    /\ \A col \in 0..(a.width \div a.tile_width) - 1,
          row \in 0..(a.height \div a.tile_height) - 1 :
            sprite_by_col_and_row(r.value, col, row).status = "Ok"

(* C9: for all arguments with width % tile_width == 0 and
   height % tile_height == 0, SpriteStore::new succeeds and holds exactly
   (width/tile_width) * (height/tile_height) tiles, with that many columns
   and rows, every cell retrievable. *)
C9_Original ==
    (store_result.status # "none" /\ Divisible(store_args)) => FullGrid(store_args, store_result)

(* C10: whenever width % tile_width != 0 or height % tile_height != 0 (the
   remainders being those of nonzero tile sizes), SpriteStore::new returns an
   error and no atlas value, and it has created no image and computed no
   tile. *)
C10_IndivisibleIsError ==
    (/\ store_result.status # "none"
     /\ store_args.tile_width # 0
     /\ \/ store_args.width % store_args.tile_width # 0
        \/ (store_args.tile_height # 0 /\ store_args.height % store_args.tile_height # 0))
        => /\ store_result.status = "Err"
           /\ store_result.error \in {"width", "height"}
           /\ store_result.value = NoStore
           /\ store_result.images = 0

(* The width divides, the height does not, and the host could have created
   the image: construction failed on the height. *)
C10_Witness ==
    /\ store_result.status = "Err"
    /\ store_result.error = "height"
    /\ store_args.width = 4 /\ store_args.tile_width = 2
    /\ store_args.height = 5 /\ store_args.tile_height = 2
    /\ store_args.image_ok

(* The grid of the image the lookups are made in. *)
Columns == store_args.width \div store_args.tile_width
Rows == store_args.height \div store_args.tile_height

(* A lookup was made and asked for a cell or index outside the grid. *)
OutOfGrid ==
    /\ store_args.tile_width # 0
    /\ store_args.tile_height # 0
    /\ \/ /\ lookup.kind \in {"sprite_by_col_and_row", "SpriteBuilder::sprite"}
          /\ (lookup.col >= Columns \/ lookup.row >= Rows)
       \/ /\ lookup.kind = "sprite"
          /\ lookup.index >= Columns * Rows

(* C11: for every atlas, a column/row lookup with column >= columns or
   row >= rows fails with an error, and a linear lookup with
   index >= columns * rows fails with an error; no out-of-grid request
   returns a tile. *)
C11_OutOfGridFails ==
    OutOfGrid => lookup.result.status = "Err"

(* A column/row lookup was made for a cell inside the grid. *)
ValidCell ==
    /\ lookup.kind \in {"sprite_by_col_and_row", "SpriteBuilder::sprite"}
    /\ store_args.tile_width # 0
    /\ store_args.tile_height # 0
    /\ 0 <= lookup.col /\ lookup.col < Columns
    /\ 0 <= lookup.row /\ lookup.row < Rows

(* C12: for every valid (c, r) of an atlas built with tile size
   (tile_width, tile_height), the sprite returned for (c, r) has
   (sx, sy) == (c * tile_width, r * tile_height) and
   (width, height) == (tile_width, tile_height). *)
C12_TileGeometry ==
    ValidCell =>
        /\ lookup.result.status = "Ok"
        /\ lookup.result.sprite.sx = lookup.col * store_args.tile_width
        /\ lookup.result.sprite.sy = lookup.row * store_args.tile_height
        /\ lookup.result.sprite.width = store_args.tile_width
        /\ lookup.result.sprite.height = store_args.tile_height

(* Cell (2, 1) of a 6x6 image cut into 2x3 tiles was looked up. *)
C12_Witness ==
    /\ lookup.kind = "sprite_by_col_and_row"
    /\ store_args.width = 6 /\ store_args.tile_width = 2
    /\ store_args.height = 6 /\ store_args.tile_height = 3
    /\ lookup.col = 2 /\ lookup.row = 1
    /\ lookup.result.status = "Ok"
    /\ lookup.result.sprite.sx = 4 /\ lookup.result.sprite.sy = 3

(* C13: the linear lookup is row-major: sprite_by_col_and_row(column, row)
   returns the tile sprite(column + row * columns) returns, and sprite(i) is
   the tile at column i mod columns and row i div columns. *)
C13_RowMajor ==
    /\ (lookup.kind = "sprite_by_col_and_row" /\ ValidCell) =>
          /\ lookup.result.status = "Ok"
          /\ lookup.result = sprite(store_result.value, lookup.col + lookup.row * Columns)
    /\ (lookup.kind = "sprite" /\ lookup.index < Len(store_result.value.store)) =>
          /\ lookup.result.status = "Ok"
          /\ lookup.result = sprite_by_col_and_row(store_result.value,
                                                   lookup.index % Columns,
                                                   lookup.index \div Columns)
          /\ lookup.result.sprite.sx = (lookup.index % Columns) * store_args.tile_width
          /\ lookup.result.sprite.sy = (lookup.index \div Columns) * store_args.tile_height

(* Index 4 of a 3-column, 2-row atlas is the tile at column 1, row 1. *)
C13_Witness ==
    /\ lookup.kind = "sprite"
    /\ lookup.index = 4
    /\ store_args.width = 6 /\ store_args.tile_width = 2
    /\ store_args.height = 6 /\ store_args.tile_height = 3
    /\ lookup.result.status = "Ok"
    /\ lookup.result.sprite.sx = 2 /\ lookup.result.sprite.sy = 3

(* Tile t contains the pixel (px, py). *)
Contains(t, px, py) ==
    /\ t.sx <= px /\ px < t.sx + t.width
    /\ t.sy <= py /\ py < t.sy + t.height

(* Tiles t and u share no pixel. *)
Disjoint(t, u) ==
    \/ t.sx + t.width <= u.sx
    \/ u.sx + u.width <= t.sx
    \/ t.sy + t.height <= u.sy
    \/ u.sy + u.height <= t.sy

(* C14: the tiles of a successfully built atlas partition the image: every
   tile lies inside the image, distinct cells do not overlap, and the tiles
   together cover the whole image rectangle. *)
C14_TilesPartitionImage ==
    store_result.status = "Ok" =>
        LET tiles == store_result.value.store IN
        /\ \A i \in 1..Len(tiles) :
              /\ 0 <= tiles[i].sx /\ tiles[i].sx + tiles[i].width <= store_args.width
              /\ 0 <= tiles[i].sy /\ tiles[i].sy + tiles[i].height <= store_args.height
        /\ \A i, j \in 1..Len(tiles) : i # j => Disjoint(tiles[i], tiles[j])
        /\ \A px \in 0..store_args.width - 1, py \in 0..store_args.height - 1 :
              \E i \in 1..Len(tiles) : Contains(tiles[i], px, py)

(* A 6x6 image was cut into six 3x2 tiles. *)
C14_Witness ==
    /\ store_result.status = "Ok"
    /\ store_args.width = 6 /\ store_args.tile_width = 3
    /\ store_args.height = 6 /\ store_args.tile_height = 2
    /\ Len(store_result.value.store) = 6

(* The position of the last drawing operation lies within [lo_x, canvas_width]
   x [lo_y, canvas_height]; NaN lies in no interval. *)
Within(lo_x, lo_y) ==
    /\ f64_le(lo_x, draw.position.dx)
    /\ f64_le(draw.position.dx, renderer.canvas_width)
    /\ f64_le(lo_y, draw.position.dy)
    /\ f64_le(draw.position.dy, renderer.canvas_height)

(* C15: drawing a sprite issues a draw call to the surface if and only if
   -sprite.width <= position.dx <= canvas_width and
   -sprite.height <= position.dy <= canvas_height; otherwise no draw call
   reaches the surface. *)
C15_DrawIffInBounds ==
    draw.op \in {"draw_image", "Renderer::render"} =>
        (surface # << >>
            <=> Within(F64(0 - draw.sprite.width), F64(0 - draw.sprite.height)))

(* C16: drawing text issues a text draw call if and only if
   0 <= position.dx <= canvas_width and 0 <= position.dy <= canvas_height;
   outside that closed rectangle no draw call reaches the surface. *)
C16_TextIffInBounds ==
    draw.op = "Renderer::text" => (surface # << >> <=> Within(F64(0), F64(0)))

(* C17: each setup failure of run (canvas element not found, drawing
   context unavailable, key-listener registration failure) is reported to the
   caller of run, by the call of run itself, as a failure of run: run never
   returns Ok, and is never still pending, once a setup step has failed. *)
C17_SetupFailureReported ==
    failed_step # "none" => run_result \in {"Err", "panic"}

(* Registering the keyup listener failed in app.rs and run returned Err. *)
C17_Witness ==
    /\ variant = "app"
    /\ failed_step = "keyup_listener"
    /\ run_result = "Err"
    /\ listeners = {"keydown"}

(* C18: the frame loop has no stop: once run has succeeded, provided the
   host keeps delivering requested frame callbacks (it never refuses a frame
   request and invokes every callback it granted) and update and render
   return normally, frame callbacks are invoked infinitely often, whatever
   key events arrive and whatever render draws. *)
C18_TicksForever ==
    \/ [](run_result # "Ok")
    \/ <>(fault = "request")
    \/ []<><<TickBegin>>_vars

(* The loop has reached the last counted tick with key events handled and
   after a draw that was rejected. *)
C18_Witness ==
    /\ run_result = "Ok"
    /\ ticks = MaxTicks
    /\ pc = "update"
    /\ arrivals = MaxArrivals
    /\ draw.op = "draw_image"
    /\ draw.result.status = "Err"

(* C19: at most one turn is active at any time: a key handler runs only
   between ticks, when no tick is reading the key state, and it handles one
   event at a time. *)
C19_OneTurnAtATime ==
    [][Len(handled') = Len(handled) + 1 =>
          /\ pc \in {"idle", "panicked"}
          /\ pc' = pc
          /\ key_borrow = "free"
          /\ in_progress' = in_progress
          /\ Len(pending_keys') = Len(pending_keys) - 1]_vars

(* A handler ran after a tick and changed the key state that tick had read. *)
C19_Witness ==
    /\ ticks >= 1
    /\ pc = "idle"
    /\ Len(handled) >= 1
    /\ key_event # update_keys

(* C20: KeyState is changed only by the keydown/keyup handlers: every change
   of a flag is a handler applied to a delivered event, outside a tick, and a
   frame tick (update, render, next-frame request) leaves all 41 flags as
   they were when it began. *)
C20_OnlyHandlersChangeKeys ==
    /\ [](pc \in {"update", "render"} => key_event = update_keys)
    /\ []((pc = "idle" /\ ticks > 0) => keys_at_tick_end = update_keys)
    /\ [][key_event' # key_event =>
            /\ pc' = pc
            /\ ticks' = ticks
            /\ raf_pending' = raf_pending
            /\ pending_keys # << >>
            /\ key_event' = HandleEvent(key_event, Head(pending_keys))]_vars

(* Two whole ticks have run while A was held. *)
C20_Witness ==
    /\ ticks = 2
    /\ pc = "idle"
    /\ Held(key_event) = {"key_a"}
    /\ keys_at_tick_end = key_event
    /\ update_keys = key_event

(* C21: a failing sprite lookup does not invalidate the atlas: after any
   sequence of successful and failing lookups the store, its columns and its
   rows are what SpriteStore::new returned, and every valid lookup returns
   the tile it returned right after construction. *)
C21_LookupsLeaveAtlas ==
    store_result.status = "Ok" =>
        /\ store_result = built
        /\ (lookup.kind = "sprite" /\ lookup.index < Columns * Rows) =>
              lookup.result = sprite(built.value, lookup.index)
        /\ (lookup.kind = "sprite_by_col_and_row" /\ ValidCell) =>
              /\ lookup.result = sprite_by_col_and_row(built.value, lookup.col, lookup.row)
              /\ lookup.result.status = "Ok"

(* Two lookups failed, then the last tile of a 3x2 image of 1x1 tiles was
   found where it was built. *)
C21_Witness ==
    /\ n_failed = 2
    /\ lookups_left = 0
    /\ store_args.width = 3 /\ store_args.height = 2
    /\ store_args.tile_width = 1 /\ store_args.tile_height = 1
    /\ lookup.kind = "sprite_by_col_and_row"
    /\ lookup.col = 2 /\ lookup.row = 1
    /\ lookup.result.status = "Ok"
    /\ lookup.result.sprite.sx = 2 /\ lookup.result.sprite.sy = 1

(* C22: a failure of update or render in a tick is not caught by the frame
   loop: after update fails render is not invoked for that tick, after either
   fails the next frame is not requested, and from then on no callback runs
   again (no retry). *)
C22_FailureEndsLoop ==
    /\ [](fault = "update" => (calls = << "update" >> /\ pc = "panicked"))
    /\ [](fault = "render" => (calls = << "update", "render" >> /\ pc = "panicked"))
    /\ [](fault = "request" => pc = "panicked")
    /\ [](fault # "none" => raf_pending = 0)
    /\ [][fault # "none" =>
            /\ fault' = fault
            /\ pc' = pc
            /\ ticks' = ticks
            /\ calls' = calls
            /\ raf_pending' = raf_pending]_vars

(* update panicked in the second tick and key events arrived afterwards. *)
C22_Witness ==
    /\ fault = "update"
    /\ ticks = 2
    /\ pc = "panicked"
    /\ arrivals >= 1
    /\ pending_keys = << >>

(* C23: the elapsed time passed to update in a tick is the value the host
   supplied to that tick's frame callback, so over successive ticks update
   sees increasing values whenever the host supplied increasing values. *)
C23_TimePassedThrough ==
    /\ times.update = times.frame
    /\ times.prev_update = times.prev_frame
    /\ (ticks >= 2 /\ times.prev_frame < times.frame) =>
           times.prev_update < times.update

(* The host called back at 1 ms and then at 3 ms; update was handed 3. *)
C23_Witness ==
    /\ ticks = 2
    /\ pc = "update"
    /\ times.prev_frame = 1
    /\ times.frame = 3
    /\ times.update = 3

(* C24: clear issues exactly one clear of the rectangle
   (0, 0)-(canvas_width, canvas_height), with the dimensions the Renderer was
   built with, whatever was drawn or rejected before it; it reports no
   failure; and the Renderer's dimensions never change. *)
C24_ClearWholeCanvas ==
    /\ [](draw.op \in {"clear", "Renderer::clear"} =>
            /\ draw.result.status = "Ok"
            /\ draw.result.issued =
                  << [method |-> "clearRect",
                      args |-> << F64(0), F64(0), renderer.canvas_width,
                                  renderer.canvas_height >>] >>
            /\ surface[Len(surface)] = draw.result.issued[1]
            /\ Cardinality({i \in 1..Len(surface) :
                                surface[i].method = "clearRect"}) = 1)
    /\ [][renderer' = renderer]_vars

(* A 1x2 canvas was cleared after a draw_image left of it was rejected. *)
C24_Witness ==
    /\ draw.op = "clear"
    /\ renderer = Renderer_new(1, 2)
    /\ draw.position.dx = F64(0 - 2)
    /\ draw.sprite.width = 1
    /\ Len(surface) = 1
    /\ surface[1].args = << F64(0), F64(0), F64(1), F64(2) >>

(* C25: every accepted sprite draw issues exactly one underlying draw, at
   once, with source rectangle (sx, sy, width, height) of the sprite and
   destination (dx, dy, width, height): a sprite partly inside the canvas is
   passed on in full, neither rectangle resized or trimmed. *)
C25_AcceptedDrawInFull ==
    (draw.op \in {"draw_image", "Renderer::render"} /\ draw.result.issued # << >>) =>
        /\ draw.result.issued =
              << [method |-> "drawImage",
                  args |-> << draw.sprite.atlas,
                              F64(draw.sprite.sx), F64(draw.sprite.sy),
                              F64(draw.sprite.width), F64(draw.sprite.height),
                              draw.position.dx, draw.position.dy,
                              F64(draw.sprite.width), F64(draw.sprite.height) >>] >>
        /\ surface = draw.result.issued

(* A 2x2 sprite was drawn at (-1, 2) on a 2x2 canvas: half of its columns
   are left of the canvas and its rows start at the bottom edge. *)
C25_Witness ==
    /\ draw.op = "draw_image"
    /\ renderer = Renderer_new(2, 2)
    /\ draw.sprite.width = 2 /\ draw.sprite.height = 2
    /\ draw.position = Position_new(F64(0 - 1), F64(2))
    /\ Len(surface) = 1
    /\ surface[1].args[6] = F64(0 - 1)
    /\ surface[1].args[8] = F64(2)

(* C26: single-flight frame scheduling: after run succeeds at most one frame
   request is outstanding with the host at any moment, exactly one between
   ticks, and none while a tick's update or render is running. *)
C26_SingleFlight ==
    run_result = "Ok" =>
        /\ raf_pending <= 1
        /\ pc = "idle" => raf_pending = 1
        /\ pc \in {"update", "render"} => raf_pending = 0

(* Between the second and the third tick one request is outstanding. *)
C26_Witness ==
    /\ run_result = "Ok"
    /\ ticks = 2
    /\ pc = "idle"
    /\ raf_pending = 1
    /\ calls = << "update", "render", "request" >>

(* C27: the quiet-skip variant (Renderer::render) and the error-returning
   variant (draw_image) accept the same inputs: on every sprite, position and
   canvas one issues a draw call iff the other does, and draw_image returns
   its out-of-canvas error exactly when Renderer::render skips. *)
C27_VariantsAgree ==
    draw.op \in {"draw_image", "Renderer::render"} =>
        LET strict == draw_image(renderer, draw.sprite, draw.position, TRUE)
            quiet == Renderer_render(renderer, draw.sprite, draw.position, TRUE)
        IN  /\ (strict.issued # << >>) <=> (quiet.issued # << >>)
            /\ (strict.status = "Err") <=> (quiet.issued = << >>)

(* render is running and a draw it made was rejected: no call was issued. *)
RejectedInRender ==
    /\ pc = "render"
    /\ draw.op \in {"draw_image", "Renderer::render", "Renderer::text"}
    /\ draw.result.issued = << >>

(* C28: a rejected draw (sprite or text outside the canvas) inside the
   application's render does not stop the frame loop: the rejecting call
   leaves the callback where it was, render returns and the callback makes
   its request for the next frame, in the quiet-skip and in the
   error-returning variant; the tick ends with that frame pending unless the
   host refuses the request. *)
C28_RejectionKeepsLoop ==
    /\ RejectedInRender ~>
           \/ pc = "idle" /\ raf_pending = 1
                          /\ calls = << "update", "render", "request" >>
           \/ fault = "request"
                /\ calls = << "update", "render", "request (rejected)" >>
    /\ [][draw' # draw =>
            /\ pc' = pc
            /\ fault' = fault
            /\ raf_pending' = raf_pending]_vars

(* A tick of the app.rs revision ended, and requested the next frame, after
   draw_image rejected a sprite right of the canvas. *)
C28_Witness ==
    /\ variant = "app"
    /\ pc = "idle"
    /\ ticks >= 1
    /\ raf_pending = 1
    /\ draw.op = "draw_image"
    /\ draw.result.status = "Err"
    /\ draw.position.dx = F64(MaxCanvas + 1)
    /\ surface = << >>

(* C29: run requests the first frame only after every setup step has
   succeeded and never invokes update or render itself: while run has not
   returned, and for ever after it failed, no frame is requested and no tick
   occurs; a tick occurs only after run has returned Ok. *)
C29_FirstFrameAfterSetup ==
    /\ [](run_result # "Ok" =>
            (raf_pending = 0 /\ ticks = 0 /\ pc = "idle" /\ calls = << >>))
    /\ []((raf_pending > 0 \/ ticks > 0) =>
            (run_result = "Ok" /\ failed_step = "none"))
    /\ [][run_result = "none" =>
            (ticks' = 0 /\ pc' = "idle" /\ calls' = << >>)]_vars

(* run returned Err at the context cast; key events came and went and no
   tick occurred. *)
C29_Witness ==
    /\ run_result = "Err"
    /\ failed_step = "context_cast"
    /\ arrivals = MaxArrivals
    /\ pending_keys = << >>
    /\ raf_pending = 0
    /\ ticks = 0

(* C30: setup is all-or-nothing with respect to key handlers: whenever run
   fails, no keydown or keyup handler registered by run remains attached to
   the document. *)
C30_NoHandlerAfterFailure ==
    run_result \in {"Err", "panic"} => listeners = {}

(* C31: both key handlers are registered before the first frame callback
   is requested, so every key event the host delivers after run returns and
   before the first tick is handled and reflected, in order, in the key state
   passed to the first update; with no such event that state has all flags
   false. *)
C31_KeysBeforeFirstTick ==
    /\ (raf_pending > 0 \/ ticks > 0 \/ failed_step = "request_frame") =>
           listeners = {"keydown", "keyup"}
    /\ (ticks = 1 /\ pc = "update") =>
           /\ Len(handled) = arrivals - Len(pending_keys)
           /\ update_keys = ApplyEvents(KeyEvent_new, handled)
           /\ handled = << >> => Held(update_keys) = {}

(* Enter and A were pressed before the first tick; its update sees both. *)
C31_Witness ==
    /\ ticks = 1
    /\ pc = "update"
    /\ handled = << KeyboardEvent("keydown", DOM_VK_RETURN),
                    KeyboardEvent("keydown", DOM_VK_A) >>
    /\ Held(update_keys) = {"enter", "key_a"}

(* C32: SpriteStore::new returns a result value, success or an error, for
   every combination of width, height, tile_width and tile_height, a zero
   tile dimension included: the call never aborts the program. *)
C32_AlwaysAResult ==
    store_result.status # "none" => store_result.status \in {"Ok", "Err"}

(* C33: for all u32 width, height, tile_width and tile_height that pass
   the divisibility checks no grid computation of SpriteStore::new
   overflows: every loop iteration has x * tile_width < width and
   y * tile_height < height within the word; and for every in-range
   (col, row) sprite_by_col_and_row computes col + row * columns without
   overflow, below columns * rows, and finds a sprite. *)
PassesChecks(args) ==
    /\ args.tile_width # 0
    /\ args.width % args.tile_width = 0
    /\ args.tile_height # 0
    /\ args.height % args.tile_height = 0

C33_GridFitsWord ==
    /\ (store_result.status # "none" /\ PassesChecks(store_args)) =>
           /\ store_result.status \in {"Ok", "Err", "abort"}
           /\ store_result.status = "Err" => ~store_args.image_ok
           /\ ~store_result.grid.overflow
           /\ store_result.status = "Ok" =>
                  /\ store_result.value.store = store_result.grid.store
                  /\ Len(store_result.grid.cells) =
                         (store_args.width \div store_args.tile_width)
                         * (store_args.height \div store_args.tile_height)
           /\ \A i \in 1..Len(store_result.grid.cells) :
                  LET cell == store_result.grid.cells[i]
                  IN  /\ cell.x * store_args.tile_width < store_args.width
                      /\ cell.y * store_args.tile_height < store_args.height
                      /\ cell.x * store_args.tile_width < Word
                      /\ cell.y * store_args.tile_height < Word
           /\ \A i \in 1..Len(store_result.grid.store) :
                  LET cell == store_result.grid.cells[i]
                      made == store_result.grid.store[i]
                  IN  /\ made.sx = cell.x * store_args.tile_width
                      /\ made.sy = cell.y * store_args.tile_height
    /\ (/\ lookup.kind = "sprite_by_col_and_row"
        /\ lookup.col < store_result.value.width_in_tile
        /\ lookup.row < store_result.value.height_in_tile) =>
           /\ ~lookup.result.overflow
           /\ lookup.result.status = "Ok"
           /\ lookup.result.index =
                  lookup.col + lookup.row * store_result.value.width_in_tile
           /\ lookup.result.index <
                  store_result.value.width_in_tile
                  * store_result.value.height_in_tile

(* An image as wide as MaxMemory tiles and as high as the largest u32, cut
   into one row that fills the host's memory, and the last cell of that row
   looked up. *)
C33_Witness ==
    /\ store_args.width = MaxMemory
    /\ store_args.tile_width = 1
    /\ store_args.height = Word - 1
    /\ store_args.tile_height = Word - 1
    /\ store_result.status = "Ok"
    /\ Len(store_result.value.store) = MaxMemory
    /\ store_result.value.store[MaxMemory].sx = MaxMemory - 1
    /\ lookup.kind = "sprite_by_col_and_row"
    /\ lookup.col = MaxMemory - 1
    /\ lookup.row = 0
    /\ lookup.result.status = "Ok"
    /\ lookup.result.index = MaxMemory - 1

====
